---- MODULE Spec2Model ----
(***************************************************************************)
(* Verification model of xingapi-rs: the binary record codec               *)
(* (src/src/data/mod.rs) and the RES layout parser (src/src/layout).       *)
(*                                                                         *)
(* Text is modelled as a sequence of characters.  A character of a record  *)
(* value is its Unicode code point (an integer); a byte is an integer in   *)
(* 0..255.  Names of blocks and fields in the codec are TLA+ strings: the  *)
(* codec only compares them for equality.                                  *)
(***************************************************************************)
EXTENDS Integers, Sequences, FiniteSets, TLC

(***************************************************************************)
(* Bounds of the model.                                                    *)
(***************************************************************************)
\* longest array of records enumerated element by element
MaxRecs == 2
\* longest free-form tail appended to a raw buffer handed to decode
MaxTail == 2
MaxFields == 2
\* files in a directory
MaxFiles == 3
\* threads that call the API
MaxCallers == 2

\* request ids the DLL gives out (state_tbl has 256 places)
MaxReqIds == 2

\* calls made to the caller thread, each with its RetFuture
MaxFutures == 2

(***************************************************************************)
(* Generic helpers.                                                        *)
(***************************************************************************)
EmptyMap == [k \in {} |-> <<>>]

\* HashMap::insert
MapInsert(m, k, v) == [x \in (DOMAIN m) \cup {k} |-> IF x = k THEN v ELSE m[x]]

\* Option<T>
None == [some |-> FALSE]
Some(x) == [some |-> TRUE, val |-> x]

\* HashMap::get
MapGet(m, k) == IF k \in DOMAIN m THEN Some(m[k]) ELSE None

Min(a, b) == IF a < b THEN a ELSE b

\* F of the value of x
With(x, F(_)) == F(x)

\* s[lo..hi) with 0-based offsets, as a Rust slice; callers check the range
Slice(s, lo, hi) == [i \in 1..(hi - lo) |-> s[lo + i]]

\* Vec::resize(n, fill) on a vector not longer than n
ResizeWith(s, n, fill) == [i \in 1..n |-> IF i <= Len(s) THEN s[i] ELSE fill]

Repeat(x, n) == [i \in 1..n |-> x]

RECURSIVE Flatten(_)
Flatten(ss) == IF ss = <<>> THEN <<>> ELSE Head(ss) \o Flatten(Tail(ss))

RECURSIVE SumSeq(_)
SumSeq(s) == IF s = <<>> THEN 0 ELSE Head(s) + SumSeq(Tail(s))

(***************************************************************************)
(* EUC-KR (encoding_rs::EUC_KR).  The two-byte index is restricted to the  *)
(* entries whose bytes occur in the model's byte alphabet.                 *)
(***************************************************************************)
\* code point -> <<lead, trail>>
EucKrIndex ==
    (44032 :> <<176, 161>>)     \* U+AC00 = B0 A1
 @@ (12288 :> <<161, 161>>)     \* U+3000 = A1 A1
 @@ (8220  :> <<161, 176>>)     \* U+201C = A1 B0
 @@ (44057 :> <<176, 176>>)     \* U+AC19 = B0 B0

RECURSIVE Digits(_)
\* decimal digits of n as ASCII bytes, most significant first
Digits(n) == IF n < 10 THEN <<48 + n>> ELSE Digits(n \div 10) \o <<48 + (n % 10)>>

\* an unmappable character is written as a numeric character reference &#N;
EucKrEncodeChar(c) ==
    IF c < 128 THEN <<c>>
    ELSE IF c \in DOMAIN EucKrIndex THEN EucKrIndex[c]
    ELSE <<38, 35>> \o Digits(c) \o <<59>>

\* EUC_KR.encode(text).0
EucKrEncode(text) == Flatten([i \in 1..Len(text) |-> EucKrEncodeChar(text[i])])

RECURSIVE EucKrDecodeFrom(_, _)
\* decode_without_bom_handling_and_without_replacement: None on any
\* malformed sequence, otherwise Some(the decoded characters)
EucKrDecodeFrom(bytes, i) ==
    IF i > Len(bytes) THEN Some(<<>>)
    ELSE IF bytes[i] < 128 THEN
        LET rest == EucKrDecodeFrom(bytes, i + 1)
        IN  IF rest.some THEN Some(<<bytes[i]>> \o rest.val) ELSE None
    ELSE IF bytes[i] >= 129 /\ bytes[i] <= 254 /\ i + 1 <= Len(bytes) THEN
        LET pair == <<bytes[i], bytes[i + 1]>>
            hits == {c \in DOMAIN EucKrIndex : EucKrIndex[c] = pair}
        IN  IF hits = {} THEN None
            ELSE LET rest == EucKrDecodeFrom(bytes, i + 2)
                 IN  IF rest.some THEN Some(<<CHOOSE c \in hits : TRUE>> \o rest.val)
                     ELSE None
    ELSE None

EucKrDecode(bytes) == EucKrDecodeFrom(bytes, 1)

(***************************************************************************)
(* Layout values (src/src/layout/mod.rs).                                  *)
(***************************************************************************)
\* FieldLayout
FieldLayout(desc, name_old, name, field_type, len, point) ==
    [desc |-> desc, name_old |-> name_old, name |-> name,
     field_type |-> field_type, len |-> len, point |-> point]

\* BlockLayout.len with no account of the attribute byte
RecordLenNoAttr(fields, attr_byte) ==
    SumSeq([i \in 1..Len(fields) |-> fields[i].len])

\* BlockLayout.len: every field's len, plus one where the TR has the
\* attribute byte
RecordLen(fields, attr_byte) ==
    SumSeq([i \in 1..Len(fields) |-> fields[i].len + IF attr_byte THEN 1 ELSE 0])

\* BlockLayout, as BlockLayout::from_reader builds it
BlockLayout(name, desc, block_type, occurs, fields, attr_byte) ==
    [name |-> name, desc |-> desc, block_type |-> block_type, occurs |-> occurs,
     len |-> RecordLen(fields, attr_byte), fields |-> fields]

\* TrLayout
TrLayout(tr_type, desc, code, attr_byte, block_mode, header_type, in_blocks, out_blocks) ==
    [tr_type |-> tr_type, desc |-> desc, code |-> code, attr_byte |-> attr_byte,
     block_mode |-> block_mode, header_type |-> header_type,
     in_blocks |-> in_blocks, out_blocks |-> out_blocks]

(***************************************************************************)
(* Data values (src/src/data/mod.rs).                                      *)
(***************************************************************************)
\* Block::Block and Block::Array
SingleBlock(fields) == [kind |-> "Block", fields |-> fields]
ArrayBlock(recs) == [kind |-> "Array", recs |-> recs]

\* Block::as_block, Block::as_array
AsBlock(b) == IF b.kind = "Block" THEN Some(b.fields) ELSE None
AsArray(b) == IF b.kind = "Array" THEN Some(b.recs) ELSE None

\* Data
Data(tr_code, data_type, blocks) ==
    [tr_code |-> tr_code, data_type |-> data_type, blocks |-> blocks]

\* Result<T, E>
Ok(v) == [tag |-> "Ok", val |-> v]
Err(e) == [tag |-> "Err", err |-> e]

\* the ? of the source: the error r is, or F of the value r is
AndThen(r, F(_)) == IF r.tag = "Err" THEN r ELSE F(r)

(***************************************************************************)
(* encode (src/src/data/mod.rs).                                           *)
(***************************************************************************)
\* the largest record count the 5-digit prefix cannot hold
MaxArrayCount == 100000

\* mutant: the legacy name is tried first
FieldValueLegacyFirst(block, field_layout) ==
    IF field_layout.name_old \in DOMAIN block THEN Some(block[field_layout.name_old])
    ELSE MapGet(block, field_layout.name)

\* block.get(name).or_else(|| block.get(name_old))
FieldValue(block, field_layout) ==
    IF field_layout.name \in DOMAIN block THEN Some(block[field_layout.name])
    ELSE MapGet(block, field_layout.name_old)

\* mutant: one byte more than the field holds is let through
ExceedsFieldLenOff(enc_field, field_layout) == Len(enc_field) > field_layout.len + 1

\* enc_field.len() > field_layout.len
ExceedsFieldLen(enc_field, field_layout) == Len(enc_field) > field_layout.len

\* mutant: no room is left for the attribute byte
PaddedLenNoAttr(tr_layout, field_layout) == field_layout.len

\* the length every encoded field is resized to
PaddedLen(tr_layout, field_layout) ==
    IF tr_layout.attr_byte THEN field_layout.len + 1 ELSE field_layout.len

RECURSIVE EncodeFields(_, _, _, _, _)
\* the loop of encode_block from field i on; enc_data is the buffer so far
EncodeFields(tr_layout, block_layout, block, enc_data, i) ==
    IF i > Len(block_layout.fields) THEN Ok(enc_data)
    ELSE
        LET field_layout == block_layout.fields[i]
            field == FieldValue(block, field_layout)
        IN  IF ~field.some THEN
                Err([kind |-> "MissingField", block |-> block_layout.name,
                     field |-> field_layout.name])
            ELSE
                LET enc_field == EucKrEncode(field.val)
                IN  IF ExceedsFieldLen(enc_field, field_layout) THEN
                        Err([kind |-> "ExceedFieldLength", block |-> block_layout.name,
                             field |-> field_layout.name])
                    ELSE EncodeFields(tr_layout, block_layout, block,
                            enc_data \o ResizeWith(enc_field,
                                                   PaddedLen(tr_layout, field_layout), 0),
                            i + 1)

\* mutant: a record that fails leaves the buffer as it was and the walk
\* goes on
encode_blockSkip(tr_layout, block_layout, block, enc_data) ==
    LET r == EncodeFields(tr_layout, block_layout, block, enc_data, 1)
    IN  IF r.tag = "Err" THEN Ok(enc_data) ELSE r

encode_block(tr_layout, block_layout, block, enc_data) ==
    EncodeFields(tr_layout, block_layout, block, enc_data, 1)

\* mutant: the count is padded to 4 digits
CountPrefix4(n) ==
    LET d == Digits(n)
    IN  IF Len(d) >= 4 THEN d ELSE Repeat(48, 4 - Len(d)) \o d

\* format!("{:0>5}", n).as_bytes()
CountPrefix(n) ==
    LET d == Digits(n)
    IN  IF Len(d) >= 5 THEN d ELSE Repeat(48, 5 - Len(d)) \o d

RECURSIVE EncodeRecords(_, _, _, _, _)
\* for block in arr_block.iter() { encode_block(..)? } from record j on
EncodeRecords(tr_layout, block_layout, arr_block, enc_data, j) ==
    IF j > Len(arr_block) THEN Ok(enc_data)
    ELSE
        AndThen(encode_block(tr_layout, block_layout, arr_block[j], enc_data), LAMBDA r :
            EncodeRecords(tr_layout, block_layout, arr_block, r.val, j + 1))

\* mutant: the input blocks are walked whatever the data type
SelectBlocksIn(data, tr_layout) == tr_layout.in_blocks

\* the block list encode walks
SelectBlocks(data, tr_layout) ==
    IF data.data_type = "Input" THEN tr_layout.in_blocks ELSE tr_layout.out_blocks

\* arr_block.len() >= 100000
ExceedsArrayLen(arr_block) == Len(arr_block) >= MaxArrayCount

\* one iteration of the block loop of encode
EncodeOneBlock(data, tr_layout, block_layout, enc_data) ==
    LET found == MapGet(data.blocks, block_layout.name)
    IN  IF ~found.some THEN
            Err([kind |-> "MissingBlock", block |-> block_layout.name])
        ELSE IF block_layout.occurs THEN
            LET arr_block == AsArray(found.val)
            IN  IF ~arr_block.some THEN
                    Err([kind |-> "MismatchBlockType", block |-> block_layout.name])
                ELSE IF ~tr_layout.block_mode THEN
                    IF ExceedsArrayLen(arr_block.val) THEN
                        Err([kind |-> "ExceedArrayLength", block |-> block_layout.name])
                    ELSE EncodeRecords(tr_layout, block_layout, arr_block.val,
                            enc_data \o CountPrefix(Len(arr_block.val)), 1)
                ELSE EncodeRecords(tr_layout, block_layout, arr_block.val, enc_data, 1)
        ELSE
            LET block == AsBlock(found.val)
            IN  IF ~block.some THEN
                    Err([kind |-> "MismatchBlockType", block |-> block_layout.name])
                ELSE encode_block(tr_layout, block_layout, block.val, enc_data)

RECURSIVE EncodeBlocks(_, _, _, _, _)
\* for block_layout in block_layouts { .. } from block k on
EncodeBlocks(data, tr_layout, block_layouts, enc_data, k) ==
    IF k > Len(block_layouts) THEN Ok(enc_data)
    ELSE
        AndThen(EncodeOneBlock(data, tr_layout, block_layouts[k], enc_data), LAMBDA r :
            EncodeBlocks(data, tr_layout, block_layouts, r.val, k + 1))

encode(data, tr_layout) ==
    IF data.tr_code # tr_layout.code THEN Err([kind |-> "MismatchLayout"])
    ELSE EncodeBlocks(data, tr_layout, SelectBlocks(data, tr_layout), <<>>, 1)

\* Session::request: let enc_data = data::encode(data, tr_layout)?; the
\* buffer the call goes on with, None where the ? returns the error
HandedOn(result) == IF result.tag = "Ok" THEN Some(result.val) ELSE None

(***************************************************************************)
(* decode (src/src/data/mod.rs).  Every decode operator threads a trace t  *)
(* of what the run did: the slices it took from the buffer (reads), the    *)
(* bytes each step it reached needed (needs) and the record counts it      *)
(* parsed from a count prefix (counts).  A slice that is out of range, a   *)
(* division by zero and a failed assert! abort the run: tag "Panic".       *)
(***************************************************************************)
EmptyTrace == [reads |-> <<>>, needs |-> <<>>, counts |-> <<>>]

AddRead(t, lo, hi, buf_len) ==
    [t EXCEPT !.reads = Append(@, [lo |-> lo, hi |-> hi, buf_len |-> buf_len])]
AddNeed(t, at, need, buf_len) ==
    [t EXCEPT !.needs = Append(@, [at |-> at, need |-> need, buf_len |-> buf_len])]
AddCount(t, block, start, count, rec_len, buf_len) ==
    [t EXCEPT !.counts = Append(@, [block |-> block, start |-> start, count |-> count,
                                    rec_len |-> rec_len, buf_len |-> buf_len])]

Panic(why, t) == [tag |-> "Panic", why |-> why, t |-> t]
Fail(e, t) == [tag |-> "Err", err |-> e, t |-> t]

\* the run goes on with F of r where r is no error and no panic
OnOk(r, F(_)) == IF r.tag # "Ok" THEN r ELSE F(r)

\* the characters trim_matches removes
IsTrimmed(c) == c < 32 \/ c = 32

RECURSIVE TrimStart(_)
TrimStart(s) == IF s # <<>> /\ IsTrimmed(Head(s)) THEN TrimStart(Tail(s)) ELSE s

RECURSIVE TrimEnd(_)
TrimEnd(s) ==
    IF s # <<>> /\ IsTrimmed(s[Len(s)]) THEN TrimEnd(SubSeq(s, 1, Len(s) - 1)) ELSE s

\* str::trim_matches(|c| (c as u32) < 0x20 || c == ' ')
TrimMatches(s) == TrimEnd(TrimStart(s))

decode_str(data) ==
    With(EucKrDecode(data), LAMBDA s :
        IF s.some THEN Ok(TrimMatches(s.val)) ELSE Err([kind |-> "MalformedString"]))

\* mutant: the attribute byte is not skipped
FieldStrideNoAttr(tr_layout, field_layout) == field_layout.len

\* the step the running offset takes after a field
FieldStride(tr_layout, field_layout) ==
    field_layout.len + IF tr_layout.attr_byte THEN 1 ELSE 0

RECURSIVE DecodeFields(_, _, _, _, _, _, _)
\* for field_layout in &block_layout.fields { .. } from field i on
DecodeFields(tr_layout, block_layout, raw, offset, i, fields, t) ==
    IF i > Len(block_layout.fields) THEN
        [tag |-> "Ok", fields |-> fields, offset |-> offset, t |-> t]
    ELSE
        LET field_layout == block_layout.fields[i]
            lo == offset
            hi == offset + field_layout.len
            t2 == AddRead(t, lo, hi, Len(raw))
        IN  IF hi > Len(raw) THEN Panic("slice index out of range", t2)
            ELSE
                With(decode_str(Slice(raw, lo, hi)), LAMBDA s :
                    IF s.tag = "Err" THEN Fail(s.err, t2)
                    ELSE DecodeFields(tr_layout, block_layout, raw,
                            offset + FieldStride(tr_layout, field_layout), i + 1,
                            MapInsert(fields, field_layout.name, s.val), t2))

RECURSIVE DecodeRecords(_, _, _, _, _, _, _, _)
\* for _ in 0..blocks_len { .. } from record j on
DecodeRecords(tr_layout, block_layout, raw, offset, blocks_len, j, blocks, t) ==
    IF j > blocks_len THEN
        [tag |-> "Ok", blocks |-> blocks, offset |-> offset, t |-> t]
    ELSE
        OnOk(DecodeFields(tr_layout, block_layout, raw, offset, 1, EmptyMap, t), LAMBDA r :
            DecodeRecords(tr_layout, block_layout, raw, r.offset, blocks_len,
                          j + 1, Append(blocks, r.fields), r.t))

\* raw_block.len() != block_layout.len
BlockLenMismatch(raw_block, block_layout) == Len(raw_block) # block_layout.len

decode_block(tr_layout, block_layout, raw_block, t0) ==
    LET t == AddNeed(t0, 0, block_layout.len, Len(raw_block))
    IN  IF ~(tr_layout.block_mode /\ ~block_layout.occurs) THEN Panic("assertion failed", t)
        ELSE IF BlockLenMismatch(raw_block, block_layout) THEN
            Fail([kind |-> "MismatchDataLength"], t)
        ELSE
            OnOk(DecodeFields(tr_layout, block_layout, raw_block, 0, 1, EmptyMap, t),
                 LAMBDA r : [tag |-> "Ok", block |-> SingleBlock(r.fields), t |-> r.t])

\* raw_block.len() % block_layout.len != 0, for a non-zero block_layout.len
ArrayLenMismatch(raw_block, block_layout) == Len(raw_block) % block_layout.len # 0

decode_block_array(tr_layout, block_layout, raw_block, t0) ==
    LET n == Len(raw_block)
        \* a trailing partial record needs a whole record's bytes
        t == IF block_layout.len > 0 /\ n % block_layout.len # 0
             THEN AddNeed(t0, (n \div block_layout.len) * block_layout.len,
                          block_layout.len, n)
             ELSE t0
    IN  IF ~(tr_layout.block_mode /\ block_layout.occurs) THEN Panic("assertion failed", t)
        ELSE IF block_layout.len = 0 THEN Panic("division by zero", t)
        ELSE IF ArrayLenMismatch(raw_block, block_layout) THEN
            Fail([kind |-> "MismatchDataLength"], t)
        ELSE
            LET blocks_len == n \div block_layout.len
            IN  OnOk(DecodeRecords(tr_layout, block_layout, raw_block, 0, blocks_len,
                                   1, <<>>, t),
                     LAMBDA r : [tag |-> "Ok", block |-> ArrayBlock(r.blocks), t |-> r.t])

\* str::parse::<usize>: decimal digits after an optional '+'
IsDigit(c) == c >= 48 /\ c <= 57

RECURSIVE DigitsValue(_, _)
DigitsValue(s, acc) ==
    IF s = <<>> THEN acc ELSE DigitsValue(Tail(s), acc * 10 + (Head(s) - 48))

ParseUsize(text) ==
    LET body == IF text # <<>> /\ Head(text) = 43 THEN Tail(text) ELSE text
    IN  IF body = <<>> \/ \E i \in 1..Len(body) : ~IsDigit(body[i]) THEN None
        ELSE Some(DigitsValue(body, 0))

\* offset + 5 > raw_data.len()
PrefixShort(offset, raw_data) == offset + 5 > Len(raw_data)

\* mutant: room for one record is taken as room for all
RecordsShortOne(offset, block_layout, blocks_len, raw_data) ==
    offset + block_layout.len > Len(raw_data)

\* offset + block_layout.len * blocks_len > raw_data.len()
RecordsShort(offset, block_layout, blocks_len, raw_data) ==
    offset + block_layout.len * blocks_len > Len(raw_data)

\* mutant: a record one byte short is let through
RecordShortOff(offset, block_layout, raw_data) ==
    offset + block_layout.len > Len(raw_data) + 1

\* offset + block_layout.len > raw_data.len()
RecordShort(offset, block_layout, raw_data) ==
    offset + block_layout.len > Len(raw_data)

\* the record count the 5 bytes of a count prefix stand for
CountOf(prefix) ==
    With(EucKrDecode(prefix), LAMBDA text :
        IF text.some THEN ParseUsize(text.val) ELSE None)

\* one iteration of the block loop of decode_non_block
DecodeOneNonBlock(tr_layout, block_layout, raw_data, offset, t0) ==
    IF block_layout.occurs THEN
        LET t1 == AddNeed(t0, offset, 5, Len(raw_data))
        IN  IF PrefixShort(offset, raw_data) THEN Fail([kind |-> "MismatchDataLength"], t1)
            ELSE
                With(AddRead(t1, offset, offset + 5, Len(raw_data)), LAMBDA t2 :
                With(CountOf(Slice(raw_data, offset, offset + 5)), LAMBDA blocks_len :
                    IF ~blocks_len.some THEN Fail([kind |-> "InvalidArrayLength"], t2)
                    ELSE
                        With(AddNeed(
                                AddCount(t2, block_layout.name, offset, blocks_len.val,
                                         block_layout.len, Len(raw_data)),
                                offset + 5, block_layout.len * blocks_len.val,
                                Len(raw_data)), LAMBDA t3 :
                            IF RecordsShort(offset + 5, block_layout, blocks_len.val,
                                            raw_data)
                            THEN Fail([kind |-> "MismatchDataLength"], t3)
                            ELSE
                                OnOk(DecodeRecords(tr_layout, block_layout, raw_data,
                                         offset + 5, blocks_len.val, 1, <<>>, t3),
                                     LAMBDA r :
                                        [tag |-> "Ok", block |-> ArrayBlock(r.blocks),
                                         offset |-> r.offset, t |-> r.t]))))
    ELSE
        LET t1 == AddNeed(t0, offset, block_layout.len, Len(raw_data))
        IN  IF RecordShort(offset, block_layout, raw_data) THEN
                Fail([kind |-> "MismatchDataLength"], t1)
            ELSE
                OnOk(DecodeFields(tr_layout, block_layout, raw_data, offset, 1,
                                  EmptyMap, t1),
                     LAMBDA r : [tag |-> "Ok", block |-> SingleBlock(r.fields),
                                 offset |-> r.offset, t |-> r.t])

RECURSIVE DecodeNonBlocks(_, _, _, _, _, _)
\* for block_layout in &tr_layout.out_blocks { .. } from block k on
DecodeNonBlocks(tr_layout, raw_data, offset, k, blocks, t) ==
    IF k > Len(tr_layout.out_blocks) THEN
        [tag |-> "Ok", blocks |-> blocks, offset |-> offset, t |-> t]
    ELSE
        LET block_layout == tr_layout.out_blocks[k]
        IN  OnOk(DecodeOneNonBlock(tr_layout, block_layout, raw_data, offset, t),
                 LAMBDA r :
                    DecodeNonBlocks(tr_layout, raw_data, r.offset, k + 1,
                                    MapInsert(blocks, block_layout.name, r.block), r.t))

decode_non_block(tr_layout, data_type, raw_data) ==
    IF tr_layout.block_mode THEN Panic("assertion failed", EmptyTrace)
    ELSE
        OnOk(DecodeNonBlocks(tr_layout, raw_data, 0, 1, EmptyMap, EmptyTrace), LAMBDA r :
            [tag |-> "Ok", data |-> Data(tr_layout.code, data_type, r.blocks), t |-> r.t])

\* tr_layout.out_blocks.iter().find(|b| b.name == block_name)
FindOutBlock(tr_layout, block_name) ==
    LET hits == {k \in 1..Len(tr_layout.out_blocks) :
                    tr_layout.out_blocks[k].name = block_name}
    IN  IF hits = {} THEN None
        ELSE Some(tr_layout.out_blocks[CHOOSE k \in hits : \A h \in hits : k <= h])

RECURSIVE DecodeBlockTbl(_, _, _, _, _, _)
\* for (block_name, raw_block) in raw_block_tbl { .. }; order is the order
\* in which this HashMap iterates, from its entry k on
DecodeBlockTbl(tr_layout, raw_block_tbl, order, k, blocks, t) ==
    IF k > Len(order) THEN [tag |-> "Ok", blocks |-> blocks, t |-> t]
    ELSE
        LET block_name == order[k]
            block_layout == FindOutBlock(tr_layout, block_name)
        IN  IF ~block_layout.some THEN
                Fail([kind |-> "UnknownBlock", block |-> block_name], t)
            ELSE
                OnOk(IF block_layout.val.occurs
                     THEN decode_block_array(tr_layout, block_layout.val,
                                             raw_block_tbl[block_name], t)
                     ELSE decode_block(tr_layout, block_layout.val,
                                       raw_block_tbl[block_name], t),
                     LAMBDA r :
                        DecodeBlockTbl(tr_layout, raw_block_tbl, order, k + 1,
                                       MapInsert(blocks, block_name, r.block), r.t))

\* decode; raw_data is RawData::Block (kind "Block", a table of raw blocks)
\* or RawData::NonBlock (kind "NonBlock", one buffer)
decode(tr_layout, raw_data, order) ==
    IF raw_data.kind = "Block" THEN
        IF ~tr_layout.block_mode THEN Panic("assertion failed", EmptyTrace)
        ELSE
            OnOk(DecodeBlockTbl(tr_layout, raw_data.tbl, order, 1, EmptyMap, EmptyTrace),
                 LAMBDA r : [tag |-> "Ok", data |-> Data(tr_layout.code, "Output", r.blocks),
                             t |-> r.t])
    ELSE
        IF tr_layout.block_mode THEN Panic("assertion failed", EmptyTrace)
        ELSE decode_non_block(tr_layout, "Output", raw_data.buf)

(***************************************************************************)
(* The tokenizer (src/src/layout/read.rs).  A text is a sequence of        *)
(* one-character strings; offsets into it count from 0, as the char        *)
(* indices of the source do, the text taken to be ASCII.  The state of a   *)
(* StrRead is the offset its iterator stands at (iter), the symbol it      *)
(* returned last (prev_symbol) and latest_offset.                          *)
(***************************************************************************)
CharAt(string, i) == string[i + 1]

\* StrRead::new
NewState == [iter |-> 0, prev_symbol |-> <<>>, latest_offset |-> 0]

RECURSIVE skip_until_not_whitespace(_, _)
\* Some(offset of the first character that is not whitespace), None at the end
skip_until_not_whitespace(string, iter) ==
    IF iter >= Len(string) THEN None
    ELSE IF CharAt(string, iter) \in {" ", "\t", "\r", "\n"}
         THEN skip_until_not_whitespace(string, iter + 1)
         ELSE Some(iter)

RECURSIVE skip_until_not_comment(_, _)
\* Some(offset after the first "*/"), None at the end
skip_until_not_comment(string, iter) ==
    IF iter >= Len(string) THEN None
    ELSE IF CharAt(string, iter) = "*" /\ iter + 1 < Len(string)
            /\ CharAt(string, iter + 1) = "/"
         THEN Some(iter + 2)
         ELSE skip_until_not_comment(string, iter + 1)

Scanned(iter, begin_idx, end_idx) ==
    [some |-> TRUE, iter |-> iter, begin_idx |-> begin_idx, end_idx |-> end_idx]

\* the characters that end a token were a blank to end it as a line break does
LineBreakOrBlank == {"\r", "\n", " ", "\t"}

\* the characters of the first arm of the match in next_sym
LineBreak == {"\r", "\n"}

RECURSIVE Scan(_, _, _, _, _)
\* the while loop of next_sym
Scan(string, iter, begin_idx, end_idx, prev_whitespace) ==
    IF iter >= Len(string) THEN Scanned(iter, begin_idx, end_idx)
    ELSE
        LET ch == CharAt(string, iter)
            idx == iter
            ended == Scanned(iter, begin_idx, IF ~prev_whitespace THEN idx ELSE end_idx)
        IN  IF ch \in LineBreak THEN
                IF idx = begin_idx THEN
                    With(skip_until_not_whitespace(string, iter), LAMBDA w :
                        IF ~w.some THEN None
                        ELSE Scan(string, w.val, w.val, end_idx, prev_whitespace))
                ELSE ended
            ELSE IF ch = "/" THEN
                IF iter + 1 < Len(string) /\ CharAt(string, iter + 1) = "*" THEN
                    IF idx = begin_idx THEN
                        With(skip_until_not_comment(string, iter + 2), LAMBDA c :
                            IF ~c.some \/ c.val >= Len(string) THEN None
                            ELSE Scan(string, c.val, c.val, end_idx, prev_whitespace))
                    ELSE ended
                ELSE Scan(string, iter + 1, begin_idx, end_idx, prev_whitespace)
            ELSE IF ch \in {",", ";"} THEN
                IF idx = begin_idx THEN Scanned(iter + 1, begin_idx, iter + 1)
                ELSE ended
            ELSE IF ch \in {" ", "\t"} THEN
                Scan(string, iter + 1, begin_idx,
                     IF ~prev_whitespace THEN idx ELSE end_idx, TRUE)
            ELSE Scan(string, iter + 1, begin_idx, end_idx, FALSE)

IsDelimiter(symbol) == symbol = <<",">> \/ symbol = <<";">>

\* next_sym were it to move the cursor past a delimiter it suppresses
StrRead_next_symAdvancing(string, state) ==
    With(skip_until_not_whitespace(string, state.iter), LAMBDA w :
    IF ~w.some THEN [some |-> FALSE, state |-> state] ELSE
    With(Scan(string, w.val, w.val, Len(string), FALSE), LAMBDA r :
    IF ~r.some THEN [some |-> FALSE, state |-> state] ELSE
    With(Slice(string, r.begin_idx, r.end_idx), LAMBDA symbol :
        [some |-> TRUE,
         sym |-> IF IsDelimiter(symbol) /\ IsDelimiter(state.prev_symbol)
                 THEN <<>> ELSE symbol,
         state |-> [iter |-> r.iter,
                    prev_symbol |-> IF IsDelimiter(symbol) /\ IsDelimiter(state.prev_symbol)
                                    THEN <<>> ELSE symbol,
                    latest_offset |-> r.begin_idx]])))

\* StrRead::next_sym: [some, sym, state]
StrRead_next_sym(string, state) ==
    With(skip_until_not_whitespace(string, state.iter), LAMBDA w :
    IF ~w.some THEN [some |-> FALSE, state |-> state] ELSE
    With(Scan(string, w.val, w.val, Len(string), FALSE), LAMBDA r :
    IF ~r.some THEN [some |-> FALSE, state |-> state] ELSE
    With(Slice(string, r.begin_idx, r.end_idx), LAMBDA symbol :
    IF IsDelimiter(symbol) /\ IsDelimiter(state.prev_symbol)
    THEN [some |-> TRUE, sym |-> <<>>, state |-> [state EXCEPT !.prev_symbol = <<>>]]
    ELSE [some |-> TRUE, sym |-> symbol,
          state |-> [iter |-> r.iter, prev_symbol |-> symbol,
                     latest_offset |-> r.begin_idx]])))

\* peek_sym were it to leave the iterator where its next_sym has moved it
StrRead_peek_symConsuming(string, state) ==
    With(StrRead_next_sym(string, state), LAMBDA n :
        [n EXCEPT !.state = [iter |-> n.state.iter, prev_symbol |-> state.prev_symbol,
                             latest_offset |-> n.state.latest_offset]])

\* StrRead::peek_sym: iter and prev_symbol are put back
StrRead_peek_sym(string, state) ==
    With(StrRead_next_sym(string, state), LAMBDA n :
        [n EXCEPT !.state = [iter |-> state.iter, prev_symbol |-> state.prev_symbol,
                             latest_offset |-> n.state.latest_offset]])

\* the offsets below latest_offset at which the loop of position ends a
\* line: every "\r" (a "\n" right after it is taken along with it) and
\* every "\n" the loop comes upon by itself
LineBreaks(string, latest_offset) ==
    {idx \in 0..(Min(latest_offset, Len(string)) - 1) :
        \/ CharAt(string, idx) = "\r"
        \/ /\ CharAt(string, idx) = "\n"
           /\ ~(idx > 0 /\ CharAt(string, idx - 1) = "\r")}

\* the offset the line after the line break at idx starts at
LineStart(string, idx) ==
    IF CharAt(string, idx) = "\r" /\ idx + 1 < Len(string) /\ CharAt(string, idx + 1) = "\n"
    THEN idx + 2 ELSE idx + 1

RECURSIVE ColumnFrom(_, _, _, _)
\* the loop of position over the characters of the last line
ColumnFrom(string, latest_offset, idx, column) ==
    IF idx >= Len(string) \/ idx >= latest_offset THEN column
    ELSE IF CharAt(string, idx) = "\t"
         THEN ColumnFrom(string, latest_offset, idx + 1, column + 4 - ((column - 1) % 4))
         ELSE ColumnFrom(string, latest_offset, idx + 1, column + 1)

\* position were its columns to count from 0
StrRead_positionFromZero(string, state) ==
    With(LineBreaks(string, state.latest_offset), LAMBDA breaks :
        [line |-> 1 + Cardinality(breaks),
         column |-> ColumnFrom(string, state.latest_offset,
                        IF breaks = {} THEN 0
                        ELSE LineStart(string,
                                CHOOSE idx \in breaks : \A b \in breaks : b <= idx),
                        0)])

\* StrRead::position: the loop over the characters below latest_offset, a
\* line counted at each line break and the column from the last of them
StrRead_position(string, state) ==
    With(LineBreaks(string, state.latest_offset), LAMBDA breaks :
        [line |-> 1 + Cardinality(breaks),
         column |-> ColumnFrom(string, state.latest_offset,
                        IF breaks = {} THEN 0
                        ELSE LineStart(string,
                                CHOOSE idx \in breaks : \A b \in breaks : b <= idx),
                        1)])

(***************************************************************************)
(* The parser (src/src/layout/mod.rs).  A run of TrLayout::from_str is a   *)
(* record p: the place the run stands at (pc), the state of its reader,    *)
(* the locals of TrLayout::from_reader (tr), of the BlockLayout::          *)
(* from_reader it is in (block) and of the FieldLayout::from_reader it is  *)
(* in (field), and the kind of the error it ended with (error, "" for      *)
(* none).  A local holds an empty value until the code assigns it.  A step *)
(* of the run is one call of the reader and the code up to the next call.  *)
(***************************************************************************)

\* Error::unexpected_syntax, Error::unexpected_data, Error::unexpected_eof
ErrorAt(kind, string, st) ==
    With(StrRead_position(string, st), LAMBDA pos :
        Err([kind |-> kind, line |-> pos.line, column |-> pos.column]))

\* the places of peek_sym were the parser to take the symbol after a field
\* with next_sym
PeekPcsBlind == {"tr_blocks", "block_fields"}

\* the places at which the parser calls peek_sym
PeekPcs == {"tr_blocks", "block_fields", "field_semi"}

\* the places at which the parser calls reader.next_sym().unwrap()
UnwrapPcs == {"block_end", "field_semi_next"}

\* the run goes on at pc
Goto(p, pc) == [p EXCEPT !.pc = pc]

\* return Err(..) were the run to go on after it
RaiseAndGoOn(p, kind) == [p EXCEPT !.error = kind]

\* return Err(..) of the kind
Raise(p, kind) == [p EXCEPT !.pc = "done", !.error = kind]

\* skip_delimiter on the symbol its next_sym gave
skip_delimiter(p, sym, pc) ==
    IF sym = <<",">> THEN Goto(p, pc)
    ELSE IF sym = <<";">> THEN Raise(p, "Data")
    ELSE Raise(p, "Syntax")

DigitChars == {"0", "1", "2", "3", "4", "5", "6", "7", "8", "9"}
AlphaChars ==
    {"a", "b", "c", "d", "e", "f", "g", "h", "i", "j", "k", "l", "m", "n", "o", "p",
     "q", "r", "s", "t", "u", "v", "w", "x", "y", "z", "A", "B", "C", "D", "E", "F",
     "G", "H", "I", "J", "K", "L", "M", "N", "O", "P", "Q", "R", "S", "T", "U", "V",
     "W", "X", "Y", "Z"}

DigitOf(ch) ==
    CASE ch = "0" -> 0 [] ch = "1" -> 1 [] ch = "2" -> 2 [] ch = "3" -> 3 [] ch = "4" -> 4
      [] ch = "5" -> 5 [] ch = "6" -> 6 [] ch = "7" -> 7 [] ch = "8" -> 8 [] ch = "9" -> 9

RECURSIVE NumValue(_, _)
NumValue(text, acc) ==
    IF text = <<>> THEN acc ELSE NumValue(Tail(text), acc * 10 + DigitOf(Head(text)))

\* text.parse::<usize>(): decimal digits after an optional '+'
ParseNum(text) ==
    LET body == IF text # <<>> /\ Head(text) = "+" THEN Tail(text) ELSE text
    IN  IF body = <<>> \/ \E i \in 1..Len(body) : body[i] \notin DigitChars THEN None
        ELSE Some(NumValue(body, 0))

\* offsets at which pat occurs in text
Occurrences(text, pat) ==
    {i \in 0..(Len(text) - Len(pat)) : Slice(text, i, i + Len(pat)) = pat}

\* text around the occurrence of pat at offset i
SplitAt(text, pat, i) == <<Slice(text, 0, i), Slice(text, i + Len(pat), Len(text))>>

\* str::split_once: around the first occurrence of pat
SplitOnce(text, pat) ==
    With(Occurrences(text, pat), LAMBDA occ :
        IF occ = {} THEN None
        ELSE Some(SplitAt(text, pat, CHOOSE i \in occ : \A h \in occ : i <= h)))

\* str::rsplit_once: around the last occurrence of pat
RSplitOnce(text, pat) ==
    With(Occurrences(text, pat), LAMBDA occ :
        IF occ = {} THEN None
        ELSE Some(SplitAt(text, pat, CHOOSE i \in occ : \A h \in occ : i >= h)))

\* FieldType::from_str
FieldTypeFromStr(text) ==
    IF text = <<"c", "h", "a", "r">> THEN Some("Char")
    ELSE IF text = <<"d", "a", "t", "e">> THEN Some("Date")
    ELSE IF text = <<"l", "o", "n", "g">> \/ text = <<"i", "n", "t">> THEN Some("Int")
    ELSE IF text = <<"f", "l", "o", "a", "t">> THEN Some("Float")
    ELSE IF text = <<"d", "o", "u", "b", "l", "e">> THEN Some("Double")
    ELSE None

\* the length and decimal point of a field, from its last parameter
FieldLen(raw_len) ==
    With(SplitOnce(raw_len, <<".">>), LAMBDA parts :
        IF parts.some THEN
            With(ParseNum(parts.val[1]), LAMBDA len :
            With(ParseNum(parts.val[2]), LAMBDA point :
                IF len.some /\ point.some THEN Some(<<len.val, Some(point.val)>>)
                ELSE None))
        ELSE
            With(ParseNum(raw_len), LAMBDA len :
                IF len.some THEN Some(<<len.val, None>>) ELSE None))

\* FieldLayout::from_reader, from the symbol sym the reader gave at p.pc
FieldLayout_from_reader(p, sym) ==
    CASE p.pc = "field_desc" -> [p EXCEPT !.field.desc = sym, !.pc = "field_desc_delim"]
      [] p.pc = "field_desc_delim" -> skip_delimiter(p, sym, "field_name_old")
      [] p.pc = "field_name_old" ->
            [p EXCEPT !.field.name_old = sym, !.pc = "field_name_old_delim"]
      [] p.pc = "field_name_old_delim" -> skip_delimiter(p, sym, "field_name")
      [] p.pc = "field_name" -> [p EXCEPT !.field.name = sym, !.pc = "field_name_delim"]
      [] p.pc = "field_name_delim" -> skip_delimiter(p, sym, "field_type")
      [] p.pc = "field_type" ->
            With(FieldTypeFromStr(sym), LAMBDA field_type :
                IF ~field_type.some THEN Raise(p, "Data")
                ELSE [p EXCEPT !.field.field_type = field_type.val,
                               !.pc = "field_type_delim"])
      [] p.pc = "field_type_delim" -> skip_delimiter(p, sym, "field_len")
      [] p.pc = "field_len" ->
            With(FieldLen(sym), LAMBDA len_point :
                IF ~len_point.some THEN Raise(p, "Data")
                ELSE [p EXCEPT !.field.len = len_point.val[1],
                               !.field.point = len_point.val[2],
                               !.pc = "field_semi"])
      [] p.pc = "field_semi" /\ sym = <<";">> -> Goto(p, "field_semi_next")
      [] p.pc \in {"field_semi", "field_semi_next"} ->
            \* Ok(FieldLayout { .. }), pushed to the fields of the block
            [p EXCEPT !.block.fields =
                          Append(@, FieldLayout(p.field.desc, p.field.name_old,
                                                p.field.name, p.field.field_type,
                                                p.field.len, p.field.point)),
                      !.pc = "block_fields"]

\* BlockType::from_str
BlockTypeFromStr(text) ==
    IF text = <<"i", "n", "p", "u", "t">> THEN Some("Input")
    ELSE IF text = <<"o", "u", "t", "p", "u", "t">> THEN Some("Output")
    ELSE None

\* name.rsplit_once("InBlock").or_else(|| name.rsplit_once("OutBlock"))
SplitBlockName(name) ==
    With(RSplitOnce(name, <<"I", "n", "B", "l", "o", "c", "k">>), LAMBDA by_in :
        IF by_in.some THEN by_in
        ELSE RSplitOnce(name, <<"O", "u", "t", "B", "l", "o", "c", "k">>))

\* the check of a block name: an alphanumeric prefix and a digit suffix
\* around the place it is split at
BlockNameOk(name) ==
    With(SplitBlockName(name), LAMBDA split :
        /\ split.some
        /\ \A i \in 1..Len(split.val[1]) : split.val[1][i] \in AlphaChars \cup DigitChars
        /\ \A i \in 1..Len(split.val[2]) : split.val[2][i] \in DigitChars)

\* BlockLayout::from_reader, from the symbol sym the reader gave at p.pc;
\* its attr_byte is the flag of the TR it is called with
BlockLayout_from_reader(p, sym) ==
    CASE p.pc = "block_name" ->
            IF ~BlockNameOk(sym) THEN Raise(p, "Data")
            ELSE [p EXCEPT !.block.name = sym, !.pc = "block_name_delim"]
      [] p.pc = "block_name_delim" -> skip_delimiter(p, sym, "block_desc")
      [] p.pc = "block_desc" -> [p EXCEPT !.block.desc = sym, !.pc = "block_desc_delim"]
      [] p.pc = "block_desc_delim" -> skip_delimiter(p, sym, "block_type")
      [] p.pc = "block_type" ->
            With(BlockTypeFromStr(sym), LAMBDA block_type :
                IF ~block_type.some THEN Raise(p, "Data")
                ELSE [p EXCEPT !.block.block_type = block_type.val,
                               !.block.occurs = FALSE,
                               !.pc = "block_param_delim"])
      [] p.pc = "block_param_delim" ->
            IF sym = <<",">> THEN Goto(p, "block_param")
            ELSE IF sym = <<";">> THEN Goto(p, "block_begin")
            ELSE Raise(p, "Syntax")
      [] p.pc = "block_param" ->
            IF sym = <<"o", "c", "c", "u", "r", "s">>
            THEN [p EXCEPT !.block.occurs = TRUE, !.pc = "block_param_delim"]
            ELSE Raise(p, "Data")
      [] p.pc = "block_begin" ->
            IF sym # <<"b", "e", "g", "i", "n">> THEN Raise(p, "Syntax")
            ELSE [p EXCEPT !.block.fields = <<>>, !.pc = "block_fields"]
      [] p.pc = "block_fields" ->
            IF sym = <<"e", "n", "d">> THEN Goto(p, "block_end")
            ELSE Goto(p, "field_desc")
      [] p.pc = "block_end" ->
            \* Ok(BlockLayout { .. }), pushed to the blocks of its type
            With(BlockLayout(p.block.name, p.block.desc, p.block.block_type,
                             p.block.occurs, p.block.fields, p.tr.flags.attr_byte),
                 LAMBDA block :
                    IF block.block_type = "Input"
                    THEN [p EXCEPT !.tr.in_blocks = Append(@, block), !.pc = "tr_blocks"]
                    ELSE [p EXCEPT !.tr.out_blocks = Append(@, block), !.pc = "tr_blocks"])

\* TrType::from_str
TrTypeFromStr(text) ==
    IF text = <<".", "F", "u", "n", "c">> THEN Some("Func")
    ELSE IF text = <<".", "F", "e", "e", "d">> THEN Some("Feed")
    ELSE None

\* HeaderType::from_str
HeaderTypeFromStr(text) ==
    IF Len(text) = 1 /\ text[1] \in {"A", "B", "C", "D"} THEN Some(text[1]) ELSE None

NoOpKeys ==
    { <<"k", "e", "y">>, <<"g", "r", "o", "u", "p">>, <<"t", "u", "x", "c", "o", "d", "e">>,
      <<"s", "v", "r">>, <<"S", "E", "R", "V", "I", "C", "E">>,
      <<"C", "R", "E", "A", "T", "O", "R">>, <<"C", "R", "E", "D", "A", "T", "E">> }

\* the parameters were an empty parameter to leave the flags as they are
ApplyTrParamEmptyOk(param, flags) ==
    IF param = <<>> THEN Some(flags)
    ELSE IF param = <<"a", "t", "t", "r">> THEN Some([flags EXCEPT !.attr_byte = TRUE])
    ELSE IF param = <<"b", "l", "o", "c", "k">> THEN
        Some([flags EXCEPT !.block_mode = TRUE])
    ELSE None

\* one parameter of the TR applied to the flags read so far; None where the
\* parameter is not accepted
ApplyTrParam(param, flags) ==
    With(SplitOnce(param, <<"=">>), LAMBDA kv :
        IF kv.some THEN
            IF (\E i \in 1..Len(kv.val[1]) : kv.val[1][i] \notin AlphaChars)
               \/ (\E i \in 1..Len(kv.val[2]) : kv.val[2][i] = "=")
            THEN None
            ELSE IF kv.val[1] = <<"h", "e", "a", "d", "t", "y", "p", "e">> THEN
                With(HeaderTypeFromStr(kv.val[2]), LAMBDA h :
                    IF h.some THEN Some([flags EXCEPT !.header_type = h]) ELSE None)
            ELSE IF kv.val[1] \in NoOpKeys THEN Some(flags)
            ELSE None
        ELSE IF param = <<"a", "t", "t", "r">> THEN Some([flags EXCEPT !.attr_byte = TRUE])
        ELSE IF param = <<"b", "l", "o", "c", "k">> THEN
            Some([flags EXCEPT !.block_mode = TRUE])
        ELSE IF param = <<"E", "N", "C", "R", "Y", "P", "T">>
                \/ param = <<"S", "I", "G", "N", "A", "T", "U", "R", "E">> THEN Some(flags)
        ELSE None)

\* TrLayout::from_reader, from the symbol sym the reader gave at p.pc
TrLayout_from_reader(p, sym) ==
    CASE p.pc = "tr_begin" ->
            IF sym # <<"B", "E", "G", "I", "N", "_", "F", "U", "N", "C", "T", "I", "O", "N", "_", "M", "A", "P">>
            THEN Raise(p, "Syntax")
            ELSE Goto(p, "tr_type")
      [] p.pc = "tr_type" ->
            With(TrTypeFromStr(sym), LAMBDA tr_type :
                IF ~tr_type.some THEN Raise(p, "Data")
                ELSE [p EXCEPT !.tr.tr_type = tr_type.val, !.pc = "tr_type_delim"])
      [] p.pc = "tr_type_delim" -> skip_delimiter(p, sym, "tr_desc")
      [] p.pc = "tr_desc" -> [p EXCEPT !.tr.desc = sym, !.pc = "tr_desc_delim"]
      [] p.pc = "tr_desc_delim" -> skip_delimiter(p, sym, "tr_code")
      [] p.pc = "tr_code" ->
            IF p.tr.tr_type = "Feed" /\ Len(sym) # 3 THEN Raise(p, "Data")
            ELSE [p EXCEPT !.tr.code = sym,
                           !.tr.flags = [attr_byte |-> FALSE, block_mode |-> FALSE,
                                         header_type |-> None],
                           !.pc = "tr_param_delim"]
      [] p.pc = "tr_param_delim" ->
            IF sym = <<",">> THEN Goto(p, "tr_param")
            ELSE IF sym = <<";">> THEN Goto(p, "tr_data_map")
            ELSE Raise(p, "Syntax")
      [] p.pc = "tr_param" ->
            With(ApplyTrParam(sym, p.tr.flags), LAMBDA applied :
                IF ~applied.some THEN Raise(p, "Data")
                ELSE [p EXCEPT !.tr.flags = applied.val, !.pc = "tr_param_delim"])
      [] p.pc = "tr_data_map" ->
            IF sym # <<"B", "E", "G", "I", "N", "_", "D", "A", "T", "A", "_", "M", "A", "P">>
            THEN Raise(p, "Syntax")
            ELSE [p EXCEPT !.tr.in_blocks = <<>>, !.tr.out_blocks = <<>>,
                           !.pc = "tr_blocks"]
      [] p.pc = "tr_blocks" ->
            IF sym = <<"E", "N", "D", "_", "D", "A", "T", "A", "_", "M", "A", "P">>
            THEN Goto(p, "tr_end")
            ELSE Goto(p, "block_name")
      [] p.pc = "tr_end" -> Goto(p, "done")

\* the places of TrLayout::from_reader and of BlockLayout::from_reader
TrPcs ==
    {"tr_begin", "tr_type", "tr_type_delim", "tr_desc", "tr_desc_delim", "tr_code",
     "tr_param_delim", "tr_param", "tr_data_map", "tr_blocks", "tr_end"}
BlockPcs ==
    {"block_name", "block_name_delim", "block_desc", "block_desc_delim", "block_type",
     "block_param_delim", "block_param", "block_begin", "block_fields", "block_end"}

\* next_sym and peek_sym of the parser on what the reader gave (n), and the
\* code that follows the call: a None of the reader is an unexpected_eof,
\* and a panic where the code unwraps it
OnSymbol(p, n) ==
    IF ~n.some THEN
        IF p.pc \in UnwrapPcs THEN Raise(p, "Panic")
        ELSE Raise([p EXCEPT !.reader = n.state], "Eof")
    ELSE IF p.pc \in TrPcs THEN TrLayout_from_reader([p EXCEPT !.reader = n.state], n.sym)
    ELSE IF p.pc \in BlockPcs
         THEN BlockLayout_from_reader([p EXCEPT !.reader = n.state], n.sym)
    ELSE FieldLayout_from_reader([p EXCEPT !.reader = n.state], n.sym)

\* one step of the run on string
from_reader(string, p) ==
    OnSymbol(p, IF p.pc \in PeekPcs THEN StrRead_peek_sym(string, p.reader)
                ELSE StrRead_next_sym(string, p.reader))

\* TrLayout::from_str: the run starts on a new reader
TrLayout_from_str ==
    [pc |-> "tr_begin", reader |-> NewState, error |-> "",
     tr |-> [tr_type |-> "", desc |-> <<>>, code |-> <<>>,
             flags |-> [attr_byte |-> FALSE, block_mode |-> FALSE, header_type |-> None],
             in_blocks |-> <<>>, out_blocks |-> <<>>],
     block |-> [name |-> <<>>, desc |-> <<>>, block_type |-> "", occurs |-> FALSE,
                fields |-> <<>>],
     field |-> [desc |-> <<>>, name_old |-> <<>>, name |-> <<>>, field_type |-> "",
                len |-> 0, point |-> None]]

\* what TrLayout::from_str returns where the run on string has ended at p
Returned(string, p) ==
    IF p.error = "" THEN
        Ok(TrLayout(p.tr.tr_type, p.tr.desc, p.tr.code, p.tr.flags.attr_byte,
                    p.tr.flags.block_mode, p.tr.flags.header_type,
                    p.tr.in_blocks, p.tr.out_blocks))
    ELSE IF p.error = "Panic" THEN [tag |-> "Panic"]
    ELSE ErrorAt(p.error, string, p.reader)

(***************************************************************************)
(* load_dir (src/src/layout/mod.rs).  A file of the directory is a record: *)
(* its name, whether it can be read, whether its bytes decode from EUC-KR  *)
(* without errors, and the text they decode to.                            *)
(***************************************************************************)
RECURSIVE parse(_, _)
\* data.parse(): the run of TrLayout::from_str on string, from p to its end
parse(string, p) ==
    IF p.pc = "done" THEN Returned(string, p)
    ELSE parse(string, from_reader(string, p))

\* the closure parse_layout of a task on its file
parse_layout(file) ==
    IF ~file.readable THEN Err([kind |-> "Io", path |-> file.name])
    ELSE IF file.had_errors THEN Err([kind |-> "Encoding", path |-> file.name])
    ELSE With(parse(file.text, TrLayout_from_str), LAMBDA r :
            IF r.tag = "Err" THEN Err([kind |-> "Parse", path |-> file.name, err |-> r.err])
            ELSE r)

\* mutant: a layout whose code is in the table already is dropped unseen
MergeKeepFirst(layout_tbl, layout) ==
    IF layout.code \in DOMAIN layout_tbl THEN Ok(layout_tbl)
    ELSE Ok(MapInsert(layout_tbl, layout.code, layout))

\* mutant: the layout received last takes the place of the one in the table
MergeLastWins(layout_tbl, layout) ==
    IF layout.code \in DOMAIN layout_tbl
    THEN Ok([layout_tbl EXCEPT ![layout.code] = layout])
    ELSE Ok(MapInsert(layout_tbl, layout.code, layout))

\* the body of the receive loop of load_dir on a parsed layout
Merge(layout_tbl, layout) ==
    IF layout.code \in DOMAIN layout_tbl THEN
        IF layout # layout_tbl[layout.code]
        THEN Err([kind |-> "Conflict", code |-> layout.code])
        ELSE Ok(layout_tbl)
    ELSE Ok(MapInsert(layout_tbl, layout.code, layout))

(***************************************************************************)
(* The layouts, data and raw buffers the codec is run on.                  *)
(***************************************************************************)
Field(name_old, name, len) == FieldLayout("", name_old, name, "Char", len, None)

\* t1104: one buffer, no attribute byte
LayoutA ==
    TrLayout("Func", "", "t1104", FALSE, FALSE, None,
        << BlockLayout("t1104InBlock", "", "Input", FALSE,
                       <<Field("shcode", "code", 6), Field("nrec", "nrec", 1)>>, FALSE) >>,
        << BlockLayout("t1104OutBlock", "", "Output", FALSE,
                       <<Field("a0", "a", 2)>>, FALSE),
           BlockLayout("t1104OutBlock1", "", "Output", TRUE,
                       <<Field("b0", "b", 1)>>, FALSE) >>)

\* t0424: one buffer, attribute bytes, the array block before a single one
LayoutB ==
    TrLayout("Func", "", "t0424", TRUE, FALSE, None,
        << BlockLayout("t0424InBlock", "", "Input", FALSE,
                       <<Field("v0", "v", 4)>>, TRUE),
           BlockLayout("t0424InBlock1", "", "Input", TRUE,
                       <<Field("idx", "indx", 1)>>, TRUE) >>,
        << BlockLayout("t0424OutBlock1", "", "Output", TRUE,
                       <<Field("p0", "p", 1)>>, TRUE),
           BlockLayout("t0424OutBlock", "", "Output", FALSE,
                       <<Field("r0", "r", 2)>>, TRUE) >>)

\* t1764: block mode, attribute bytes; the last block declares no field
LayoutC ==
    TrLayout("Func", "", "t1764", TRUE, TRUE, None,
        << BlockLayout("t1764InBlock", "", "Input", TRUE,
                       <<Field("f0", "f", 1)>>, TRUE) >>,
        << BlockLayout("t1764OutBlock", "", "Output", TRUE,
                       <<Field("x0", "x", 3), Field("y0", "y", 5)>>, TRUE),
           BlockLayout("t1764OutBlock2", "", "Output", TRUE, <<>>, TRUE) >>)

\* t1101: block mode, no attribute byte
LayoutD ==
    TrLayout("Func", "", "t1101", FALSE, TRUE, None,
        << BlockLayout("t1101InBlock", "", "Input", FALSE,
                       <<Field("s0", "s", 4)>>, FALSE) >>,
        << BlockLayout("t1101OutBlock", "", "Output", FALSE,
                       <<Field("z0", "z", 1)>>, FALSE),
           BlockLayout("t1101OutBlock1", "", "Output", TRUE,
                       <<Field("k0", "k", 1), Field("m0", "m", 2)>>, FALSE) >>)

\* t8430: one buffer, no input block, one output field wide enough for a
\* numeric character reference
LayoutE ==
    TrLayout("Func", "", "t8430", FALSE, FALSE, None,
        << >>,
        << BlockLayout("t8430OutBlock", "", "Output", FALSE,
                       <<Field("w0", "w", 6)>>, FALSE) >>)

Layouts == {LayoutA, LayoutB, LayoutC, LayoutD, LayoutE}

\* record values: "", "1", " 1", "1 ", "1\0", "12", U+AC00, U+AC00 "1", "123",
\* "1 2", "1234", "12345", "096530", U+00E9 (not in EUC-KR), "0965301"
AllValues ==
    { <<>>, <<49>>, <<32, 49>>, <<49, 32>>, <<49, 0>>, <<49, 50>>, <<44032>>,
      <<44032, 49>>, <<49, 50, 51>>, <<49, 32, 50>>, <<49, 50, 51, 52>>,
      <<49, 50, 51, 52, 53>>, <<48, 57, 54, 53, 51, 48>>, <<233>>,
      <<48, 57, 54, 53, 51, 48, 49>> }

\* the values tried for a field of a single block: all that fit, and those
\* one byte too long
RichValues(len) == {v \in AllValues : Len(EucKrEncode(v)) <= len + 1}

\* the values tried for a field of an array record
LeanValues == { <<49>>, <<32>>, <<44032>> }

\* what a record may hold for one field: the value under the current name,
\* under the legacy name, under both (with different values), or nothing;
\* in an array record only the first field is tried under its legacy name
FieldOptions(fl, rich, first) ==
    IF rich THEN
        {(fl.name :> v) : v \in RichValues(fl.len)}
        \cup {(fl.name :> <<49>>) @@ (fl.name_old :> <<50>>), (fl.name_old :> <<49>>),
              EmptyMap}
    ELSE IF first THEN
        {(fl.name :> v) : v \in LeanValues} \cup {(fl.name_old :> <<49>>)}
    ELSE {(fl.name :> v) : v \in {<<49>>, <<44032>>}}

RECURSIVE RecsFrom(_, _, _)
RecsFrom(fields, i, rich) ==
    IF i > Len(fields) THEN {EmptyMap}
    ELSE {o @@ r : o \in FieldOptions(fields[i], rich, i = 1),
                   r \in RecsFrom(fields, i + 1, rich)}

\* a record that holds every field under its current name
PlainRec(bl) == [n \in {bl.fields[i].name : i \in 1..Len(bl.fields)} |-> <<49>>]

\* the records tried for a block: rich for a single block, lean in an array;
\* one more holds a key the layout does not name
Recs(bl, rich) ==
    RecsFrom(bl.fields, 1, rich)
    \cup (IF rich THEN {PlainRec(bl) @@ ("extra" :> <<49>>)} ELSE {})

Arrays(bl) == UNION {[1..n -> Recs(bl, FALSE)] : n \in 0..MaxRecs}

\* what data may hold for a declared block: a block of the declared shape,
\* or one block of the other shape
BlockOptions(bl) ==
    IF bl.occurs
    THEN {ArrayBlock(a) : a \in Arrays(bl)} \cup {SingleBlock(PlainRec(bl))}
    ELSE {SingleBlock(r) : r \in Recs(bl, TRUE)} \cup {ArrayBlock(<<PlainRec(bl)>>)}

RECURSIVE BlockTables(_, _)
\* every declared block from k on is absent or holds one of its options
BlockTables(block_layouts, k) ==
    IF k > Len(block_layouts) THEN {EmptyMap}
    ELSE LET rest == BlockTables(block_layouts, k + 1)
         IN  rest \cup {(block_layouts[k].name :> b) @@ r :
                            b \in BlockOptions(block_layouts[k]), r \in rest}

DirBlocks(tr_layout, data_type) ==
    IF data_type = "Input" THEN tr_layout.in_blocks ELSE tr_layout.out_blocks

\* a table holding every declared block under its current names
PlainTable(block_layouts) ==
    [n \in {block_layouts[k].name : k \in 1..Len(block_layouts)} |->
        LET bl == block_layouts[CHOOSE k \in 1..Len(block_layouts) :
                                    block_layouts[k].name = n]
        IN  IF bl.occurs THEN ArrayBlock(<<PlainRec(bl)>>) ELSE SingleBlock(PlainRec(bl))]

\* tables whose first array block holds MaxArrayCount or MaxArrayCount + 1
\* records; only where encode checks the count before walking the records
HugeTables(tr_layout, block_layouts) ==
    LET arrs == {k \in 1..Len(block_layouts) : block_layouts[k].occurs}
    IN  IF tr_layout.block_mode \/ arrs = {} THEN {}
        ELSE LET k == CHOOSE k \in arrs : \A h \in arrs : k <= h
                 bl == block_layouts[k]
             IN  {[PlainTable(block_layouts) EXCEPT
                     ![bl.name] = ArrayBlock(Repeat(PlainRec(bl), n))] :
                     n \in {MaxArrayCount, MaxArrayCount + 1}}

\* the Data values encode is called with
DataSet(tr_layout) ==
    UNION {
        LET bls == DirBlocks(tr_layout, dt)
        IN  {Data(tr_layout.code, dt, tbl) : tbl \in BlockTables(bls, 1)}
            \cup {Data(tr_layout.code, dt, tbl) : tbl \in HugeTables(tr_layout, bls)}
            \cup {Data(tr_layout.code, dt,
                       PlainTable(bls) @@ ("extraBlock" :> SingleBlock(EmptyMap))),
                  Data("t9999", dt, PlainTable(bls))}
        : dt \in {"Input", "Output"} }

RECURSIVE SeqsUpTo(_, _)
\* every sequence over alphabet of length at most n
SeqsUpTo(alphabet, n) ==
    IF n = 0 THEN {<<>>}
    ELSE LET shorter == SeqsUpTo(alphabet, n - 1)
         IN  shorter \cup {Append(q, b) : q \in {x \in shorter : Len(x) = n - 1},
                                          b \in alphabet}

\* count prefixes: "00000", "00001", "00002", "00003", "+0001", "0000 ",
\* "1" B0 A1 B0 A1, "0000" FF, and the truncated "0001"
Prefixes ==
    { <<48, 48, 48, 48, 48>>, <<48, 48, 48, 48, 49>>, <<48, 48, 48, 48, 50>>,
      <<48, 48, 48, 48, 51>>, <<43, 48, 48, 48, 49>>, <<48, 48, 48, 48, 32>>,
      <<49, 176, 161, 176, 161>>, <<48, 48, 48, 48, 255>>, <<48, 48, 48, 49>> }

\* the buffers decode_non_block is called with
NonBlockBuffers(tr_layout) ==
    IF tr_layout = LayoutA THEN
        \* OutBlock (2 bytes), then the count and 1-byte records
        {h \o p \o b :
            h \in {<<49, 50>>, <<32, 49>>, <<176, 161>>, <<49, 176>>, <<255, 49>>, <<49>>},
            p \in Prefixes,
            b \in SeqsUpTo({49, 32, 176, 161}, 1 + MaxTail)}
        \cup {<<>>, <<49>>}
    ELSE IF tr_layout = LayoutB THEN
        \* the count, 2-byte records, then OutBlock (3 bytes)
        {p \o b : p \in Prefixes, b \in SeqsUpTo({49, 176}, 5 + MaxTail)}
    ELSE IF tr_layout = LayoutE THEN
        \* OutBlock (6 bytes)
        {Repeat(49, n) \o b : n \in {0, 4}, b \in SeqsUpTo({49, 32, 176}, 1 + MaxTail)}
    ELSE {}

\* the raw blocks the session hands decode for one block name
RawBlocks(block_name) ==
    IF block_name = "t1764OutBlock" THEN
        {Repeat(49, n) : n \in {0, 9, 10, 17, 18, 19, 20, 21}}
        \cup {<<49, 50, 32, 0, 176, 161, 49, 0, 0, 0>>,
              <<49, 50, 176, 0, 161, 49, 50, 51, 52, 0>>}
    ELSE IF block_name = "t1764OutBlock2" THEN SeqsUpTo({49}, MaxTail)
    ELSE IF block_name = "t1101OutBlock" THEN SeqsUpTo({49, 32, 176, 161}, MaxTail)
    ELSE IF block_name = "t1101OutBlock1" THEN SeqsUpTo({49, 176, 161}, 4 + MaxTail)
    ELSE {<<>>}

\* the tables of raw blocks decode is called with, each with the order in
\* which the table iterates: one or two blocks, declared or not
RawTables(tr_layout) ==
    LET names == {tr_layout.out_blocks[k].name : k \in 1..Len(tr_layout.out_blocks)}
                  \cup {"unknown"}
        few(n) == {r \in RawBlocks(n) : Len(r) \in {0, 2, 3, 10, 17}}
    IN  UNION {{[tbl |-> (n :> r), order |-> <<n>>] : r \in RawBlocks(n)} : n \in names}
        \cup UNION {UNION {{[tbl |-> (n1 :> r1) @@ (n2 :> r2), order |-> o] :
                                r1 \in few(n1), r2 \in few(n2),
                                o \in {<<n1, n2>>, <<n2, n1>>}}
                            : n2 \in names \ {n1}}
                    : n1 \in names}

(***************************************************************************)
(* The RES texts the parser is run on.  What a text declares is a record:  *)
(* the parameters of the TR and its blocks, each block its type, whether   *)
(* it occurs, and its fields, each field the text of its length, the       *)
(* length and decimal point that text stands for (valid FALSE where it     *)
(* stands for none) and whether a semicolon ends its line.                 *)
(***************************************************************************)
FieldDecl(len_text, valid, len, point, semi) ==
    [len_text |-> len_text, valid |-> valid, len |-> len, point |-> point, semi |-> semi]

FieldDecls ==
    { FieldDecl(<<"3">>, TRUE, 3, None, TRUE),
      FieldDecl(<<"1", "2">>, TRUE, 12, None, FALSE),
      FieldDecl(<<"4", ".", "2">>, TRUE, 4, Some(2), TRUE),
      FieldDecl(<<"x">>, FALSE, 0, None, TRUE) }

FieldDeclSeqs == UNION {[1..n -> FieldDecls] : n \in 0..MaxFields}

BlockDecl(block_type, occurs, fields) ==
    [block_type |-> block_type, occurs |-> occurs, fields |-> fields]

FirstBlockDecls ==
    {BlockDecl(k[1], k[2], fs) :
        k \in {<<"Input", FALSE>>, <<"Output", FALSE>>, <<"Output", TRUE>>},
        fs \in FieldDeclSeqs}

SecondBlockDecls ==
    { BlockDecl("Output", TRUE, <<FieldDecl(<<"5">>, TRUE, 5, None, TRUE)>>),
      BlockDecl("Input", TRUE, <<>>),
      BlockDecl("Output", FALSE, <<FieldDecl(<<"+", "7">>, TRUE, 7, None, FALSE),
                                   FieldDecl(<<"0", "8", ".", "0">>, TRUE, 8, Some(0), TRUE)>>) }

BlockDeclSeqs ==
    {<<>>} \cup {<<b>> : b \in FirstBlockDecls}
           \cup {<<b, c>> : b \in FirstBlockDecls, c \in SecondBlockDecls}

TrParams ==
    { [attr_byte |-> FALSE, block_mode |-> FALSE, headtype |-> FALSE],
      [attr_byte |-> TRUE, block_mode |-> FALSE, headtype |-> TRUE],
      [attr_byte |-> TRUE, block_mode |-> TRUE, headtype |-> FALSE],
      [attr_byte |-> FALSE, block_mode |-> TRUE, headtype |-> FALSE] }

ResSet == {[params |-> p, blocks |-> bs] : p \in TrParams, bs \in BlockDeclSeqs}

\* the line of a field
RenderField(f) ==
    <<"\t", "a", " ", "b", ",", " ", "o", "l", "d", ",", " ", "n", "e", "w", ",", " ",
      "c", "h", "a", "r", ",", " ">>
    \o f.len_text \o (IF f.semi THEN <<";">> ELSE <<>>) \o <<"\n">>

\* the lines of the k-th block
RenderBlock(b, k) ==
    <<"\t", "t", "1", "1", "0", "1">>
    \o (IF b.block_type = "Input" THEN <<"I", "n">> ELSE <<"O", "u", "t">>)
    \o <<"B", "l", "o", "c", "k">>
    \o (IF k > 1 THEN <<"1">> ELSE <<>>)
    \o <<",", "d", ",">>
    \o (IF b.block_type = "Input" THEN <<"i", "n", "p", "u", "t">>
        ELSE <<"o", "u", "t", "p", "u", "t">>)
    \o (IF b.occurs THEN <<",", "o", "c", "c", "u", "r", "s">> ELSE <<>>)
    \o <<";", "\n", "\t", "b", "e", "g", "i", "n", "\n">>
    \o Flatten([i \in 1..Len(b.fields) |-> RenderField(b.fields[i])])
    \o <<"\t", "e", "n", "d", "\n">>

\* the text of a RES file
Render(r) ==
    <<"B", "E", "G", "I", "N", "_", "F", "U", "N", "C", "T", "I", "O", "N", "_", "M", "A",
      "P", "\n", "\t", ".", "F", "u", "n", "c", ",", "d", ",", "t", "1", "1", "0", "1">>
    \o (IF r.params.headtype
        THEN <<",", "h", "e", "a", "d", "t", "y", "p", "e", "=", "A">> ELSE <<>>)
    \o (IF r.params.attr_byte THEN <<",", "a", "t", "t", "r">> ELSE <<>>)
    \o (IF r.params.block_mode THEN <<",", "b", "l", "o", "c", "k">> ELSE <<>>)
    \o <<";", "\n", "\t", "B", "E", "G", "I", "N", "_", "D", "A", "T", "A", "_", "M", "A",
         "P", "\n">>
    \o Flatten([k \in 1..Len(r.blocks) |-> RenderBlock(r.blocks[k], k)])
    \o <<"\t", "E", "N", "D", "_", "D", "A", "T", "A", "_", "M", "A", "P", "\n",
         "E", "N", "D", "_", "F", "U", "N", "C", "T", "I", "O", "N", "_", "M", "A", "P", "\n">>

(***************************************************************************)
(* RES texts put together from their parts, and the files of the           *)
(* directories load_dir is run on.                                         *)
(***************************************************************************)
\* the line of a field with the text of its length, with or without the
\* semicolon at its end
FieldText(len_text, semi) ==
    <<"\t", "a", " ", "b", ",", " ", "o", "l", "d", ",", " ", "n", "e", "w", ",",
      " ", "c", "h", "a", "r", ",", " ">>
    \o len_text \o (IF semi THEN <<";">> ELSE <<>>) \o <<"\n">>

\* the lines of an input block with its name and the lines of its fields
BlockText(name, fields) ==
    <<"\t">> \o name \o <<",", "d", ",", "i", "n", "p", "u", "t", ";", "\n", "\t", "b", "e", "g", "i",
      "n", "\n">>
    \o fields \o <<"\t", "e", "n", "d", "\n">>

\* the text of a RES file with the spelling of its TR type, its code, the
\* text of its parameters and the lines of its blocks
ResText(tr_type, code, params, body) ==
    <<"B", "E", "G", "I", "N", "_", "F", "U", "N", "C", "T", "I", "O", "N", "_", "M",
      "A", "P", "\n", "\t">>
    \o tr_type \o <<",", "d", ",">> \o code \o params
    \o <<";", "\n", "\t", "B", "E", "G", "I", "N", "_", "D", "A", "T", "A", "_", "M",
      "A", "P", "\n">>
    \o body
    \o <<"\t", "E", "N", "D", "_", "D", "A", "T", "A", "_", "M", "A", "P", "\n", "E",
      "N", "D", "_", "F", "U", "N", "C", "T", "I", "O", "N", "_", "M", "A", "P", "\n">>

File(name, readable, had_errors, text) ==
    [name |-> name, readable |-> readable, had_errors |-> had_errors, text |-> text]

\* a file of a TR with one block of one field of the length
FileOf(name, code, len_text, semi) ==
    File(name, TRUE, FALSE,
         ResText(<<".", "F", "u", "n", "c">>, code, <<>>,
                 BlockText(<<"t", "1", "1", "0", "1", "I", "n", "B", "l", "o", "c", "k">>,
                           FieldText(len_text, semi))))

\* two files of t1101 with equal layouts and different texts, one of t1101
\* with another field length, two of t1102 that differ, one whose text does
\* not parse, one that does not decode from EUC-KR
Files ==
    { FileOf("a.res", <<"t", "1", "1", "0", "1">>, <<"3">>, TRUE),
      FileOf("b.res", <<"t", "1", "1", "0", "1">>, <<"3">>, FALSE),
      FileOf("c.res", <<"t", "1", "1", "0", "1">>, <<"1", "2">>, TRUE),
      FileOf("d.res", <<"t", "1", "1", "0", "2">>, <<"3">>, TRUE),
      FileOf("e.res", <<"t", "1", "1", "0", "2">>, <<"4", ".", "2">>, TRUE),
      FileOf("f.res", <<"t", "1", "1", "0", "3">>, <<"x">>, TRUE),
      File("g.res", TRUE, TRUE, <<>>) }

\* the directories: at most MaxFiles of the files
Dirs == {d \in SUBSET Files : Cardinality(d) <= MaxFiles}

(***************************************************************************)
(* RES texts that differ from a well-formed one in one place: the spelling *)
(* of the TR type and the code, the parameters of the TR, the name of the  *)
(* block, the semicolons of its two fields, or one character of the text   *)
(* (at is its offset, by what stands there instead: a character, or "cut"  *)
(* for a text that ends before it).                                        *)
(***************************************************************************)
\* spellings of the TR type
TrTypeTexts ==
    { <<".", "F", "u", "n", "c">>,
      <<"t", "r">>,
      <<".", "F", "e", "e", "d">>,
      <<"r", "e", "a", "l">>,
      <<"F", "u", "n", "c">> }

\* TR codes of 5, 3, 2 and 4 characters
CodeTexts ==
    { <<"t", "1", "1", "0", "1">>,
      <<"S", "3", "_">>,
      <<"a", "b">>,
      <<"J", "I", "F", "_">> }

\* parameter lists of a TR, each as the text between its code and the
\* semicolon that ends the list
ParamTexts ==
    { <<>>,
      <<",">>,
      <<",", "a", "t", "t", "r">>,
      <<",", "a", "t", "t", "r", ",">>,
      <<",", "a", "t", "t", "r", ",", "b", "l", "o", "c", "k">>,
      <<",", "a", "t", "t", "r", ",", "b", "l", "o", "c", "k", ",">>,
      <<",", "h", "e", "a", "d", "t", "y", "p", "e", "=", "A", ",">>,
      <<",", "a", "t", "t", "r", ",", ",", "b", "l", "o", "c", "k">>,
      <<",", "a", "t", "t", "r", ",", "x">> }

\* block names
BlockNameTexts ==
    { <<"t", "1", "1", "0", "1", "I", "n", "B", "l", "o", "c", "k">>,
      <<"t", "1", "1", "0", "1", "O", "u", "t", "B", "l", "o", "c", "k", "1">>,
      <<"I", "n", "B", "l", "o", "c", "k">>,
      <<"O", "u", "t", "B", "l", "o", "c", "k", "1", "2">>,
      <<"B", "l", "o", "c", "k">>,
      <<"t", "1", "1", "0", "1", "I", "n", "b", "l", "o", "c", "k">>,
      <<"t", "_", "1", "I", "n", "B", "l", "o", "c", "k">>,
      <<"t", "1", "1", "0", "1", "I", "n", "B", "l", "o", "c", "k", "A">>,
      <<"t", "1", "1", "0", "1", "I", "n", "B", "l", "o", "c", "k", "1", "a">>,
      <<"I", "n", "B", "l", "o", "c", "k", "I", "n", "B", "l", "o", "c", "k">>,
      <<"I", "n", "B", "l", "o", "c", "k", "O", "u", "t", "B", "l", "o", "c", "k">>,
      <<"a", "I", "n", "B", "l", "o", "c", "k", "1", "O", "u", "t", "B", "l", "o",
          "c", "k">>,
      <<"O", "u", "t", "B", "l", "o", "c", "k", "I", "n", "B", "l", "o", "c", "k",
          "2">> }


ResCase(family, tr_type, code, params, name, semis, at, by) ==
    [family |-> family, tr_type |-> tr_type, code |-> code, params |-> params,
     name |-> name, semis |-> semis, at |-> at, by |-> by]

\* the text with the character at the offset replaced, or cut off there
Edited(string, at, by) ==
    IF at < 0 THEN string
    ELSE IF by = "cut" THEN Slice(string, 0, at)
    ELSE [string EXCEPT ![at + 1] = by]

\* the text of a case: a TR with one input block of two fields
CaseText(c) ==
    Edited(ResText(c.tr_type, c.code, c.params,
                   BlockText(c.name, FieldText(<<"3">>, c.semis[1])
                                     \o FieldText(<<"1", "2">>, c.semis[2]))),
           c.at, c.by)

\* the well-formed case
PlainCase ==
    ResCase("plain", <<".", "F", "u", "n", "c">>, <<"t", "1", "1", "0", "1">>, <<>>,
            <<"t", "1", "1", "0", "1", "I", "n", "B", "l", "o", "c", "k">>,
            <<TRUE, TRUE>>, -1, "")

PlainText == CaseText(PlainCase)

\* the offsets of the commas of the well-formed text: it has no parameters,
\* so each of them stands between two values the parser requires
CommaOffsets == {k \in 0..(Len(PlainText) - 1) : PlainText[k + 1] = ","}

\* the offset of the length of the first field in the well-formed text
LenOffset == CHOOSE k \in 0..(Len(PlainText) - 1) : PlainText[k + 1] = "3"

ResCases ==
    {[PlainCase EXCEPT !.family = "type", !.tr_type = t, !.code = c] :
        t \in TrTypeTexts, c \in CodeTexts}
    \cup {[PlainCase EXCEPT !.family = "param", !.params = ps] : ps \in ParamTexts}
    \cup {[PlainCase EXCEPT !.family = "name", !.name = n] : n \in BlockNameTexts}
    \cup {[PlainCase EXCEPT !.family = "semi", !.semis = <<a, b>>] :
            a \in BOOLEAN, b \in BOOLEAN}
    \cup {[PlainCase EXCEPT !.family = "delim", !.at = k, !.by = ch] :
            k \in CommaOffsets, ch \in {",", ";", "\n", "cut"}}
    \cup {[PlainCase EXCEPT !.family = "empty", !.at = LenOffset, !.by = " "]}

(***************************************************************************)
(* The texts a StrRead is read to its end.                                 *)
(***************************************************************************)
\* the tokens of a RES text written on one line
LineText ==
    <<"B", "E", "G", "I", "N", "_", "F", "U", "N", "C", "T", "I", "O", "N", "_", "M",
      "A", "P", " ", "t", "r", ",", " ", "d", "e", "s", "c", ",", " ", "t", "1", "1",
      "0", "1", ",", " ", "a", "t", "t", "r", ";", " ", "B", "E", "G", "I", "N", "_",
      "D", "A", "T", "A", "_", "M", "A", "P", " ", "E", "N", "D", "_", "D", "A", "T",
      "A", "_", "M", "A", "P">>

\* the same with a line break after each keyword and after the semicolon
LinesText ==
    <<"B", "E", "G", "I", "N", "_", "F", "U", "N", "C", "T", "I", "O", "N", "_", "M",
      "A", "P", "\n", " ", "t", "r", ",", " ", "d", "e", "s", "c", ",", " ", "t",
      "1", "1", "0", "1", ",", " ", "a", "t", "t", "r", ";", "\n", " ", "B", "E",
      "G", "I", "N", "_", "D", "A", "T", "A", "_", "M", "A", "P", "\n", " ", "E",
      "N", "D", "_", "D", "A", "T", "A", "_", "M", "A", "P">>

ReadTexts ==
    { LineText, LinesText,
      <<"x", " ", "y", "\n", ",", "z", " ", "/", "*", " ", "c", " ", "*", "/", " ",
        "w", ";">>,
      <<"b", "e", "g", "i", "n", "\n", "\t", "e", "n", "d", ";">>,
      <<"B", "E", "G", "I", "N", "_", "F", "U", "N", "C", "T", "I", "O", "N", "_",
        "M", "A", "P", "\t", "t", "r", ",", "\r", "\n", "\t", "d", "e", "s", "c",
        " ", "/", "*", " ", "c", " ", "*", "/", " ", ",", " ", "t", "1", "1", "0",
        "1", ";">>,
      <<"a", ",", ",", "b", ";", ";", "c", " ", ",", " ", ";">>,
      <<"/", "*", " ", "c", " ", "*", "/", " ", "a", " ", "b", "/", "*", " ", "d",
        " ", "*", "/", ",", "c">>,
      <<" ", "\t", "\r", "\n">>,
      <<"a", "/", "b", ";", "\n", "/", "*", " ", "c">> }

(***************************************************************************)
(* The codec as a state machine: a caller holding one layout calls encode  *)
(* on a Data value and may hand the bytes back to decode, or calls decode  *)
(* on what the session received.                                           *)
(***************************************************************************)
VARIABLES
    tr_layout,  \* the layout the calls are made with
    op,         \* the last call: "idle", "encode", "decode_encoded", "decode"
    data,       \* the Data last given to encode
    enc,        \* the result of the last encode
    handed,     \* the enc_data Session::request went on to hand to the DLL
    raw_data,   \* the RawData last given to decode
    dec,        \* the run of the last decode: result and trace
    res,        \* what the RES text given to the parser declares
    text,       \* the RES text given to the parser
    parser,     \* the run of TrLayout::from_str on the text
    layout,     \* the result of TrLayout::from_str on the text
    dir,        \* the files of the directory given to load_dir
    todo,       \* the files whose task has not sent its result yet
    chan,       \* the results sent and not yet received, oldest first
    layout_tbl, \* the table load_dir has built so far
    loaded,     \* the result of load_dir
    panic_count, \* the tasks that panicked: pool.panic_count()
    reader,     \* the state of a StrRead on the text
    symbols,    \* what its next_sym has returned so far
    last,       \* its last call and what the call returned
    call,       \* each caller's call of the API and the place it stands at
    lock,       \* Executor::handle, the RwLock: its writer and its readers
    queue,      \* the call requests posted to the executor window
    running,    \* the call request the executor thread is in
    requests,   \* each caller's Session::request and the place it stands at
    state_tbl,  \* SessionWindowData::state_tbl: the QueryState of each request id
    pending,    \* the request ids in use in the DLL and what it posts next for each
    inbox,      \* the messages posted to the session window, oldest first
    seen,       \* the last XM_RECEIVE_DATA handled and the state it found
    futures,    \* each RetFuture, its channel, its waker and the task polling it
    tx_func,    \* the CallerFn sent to the caller thread, oldest first
    dispatching \* the CallerFn the caller thread is in dispatch_func with

vars ==
    <<tr_layout, op, data, enc, handed, raw_data, dec, res, text, parser, layout,
      dir, todo, chan, layout_tbl, loaded, panic_count,
      reader, symbols, last, call, lock, queue, running,
      requests, state_tbl, pending, inbox, seen, futures, tx_func, dispatching>>

loadVars == <<dir, todo, chan, layout_tbl, loaded, panic_count>>
readVars == <<reader, symbols, last>>
callVars == <<call, lock, queue, running>>
queryVars == <<requests, state_tbl, pending, inbox, seen>>
futureVars == <<futures, tx_func, dispatching>>

NoValue == [none |-> TRUE]

\* load_dir has not been called
LoadIdle ==
    /\ dir = {}
    /\ todo = {}
    /\ chan = <<>>
    /\ layout_tbl = EmptyMap
    /\ loaded = NoValue
    /\ panic_count = 0

\* no StrRead has been made
ReadIdle ==
    /\ reader = NoValue
    /\ symbols = <<>>
    /\ last = NoValue

\* no executor has been loaded
CallIdle ==
    /\ call = <<>>
    /\ lock = NoValue
    /\ queue = <<>>
    /\ running = None

\* no request has been made
QueryIdle ==
    /\ requests = <<>>
    /\ state_tbl = <<>>
    /\ pending = <<>>
    /\ inbox = <<>>
    /\ seen = None

\* no caller thread has been started
FutureIdle ==
    /\ futures = <<>>
    /\ tx_func = <<>>
    /\ dispatching = None

\* no call of the codec has been made
CodecIdle ==
    /\ tr_layout = NoValue
    /\ op = "idle"
    /\ data = NoValue
    /\ enc = NoValue
    /\ handed = None
    /\ raw_data = NoValue
    /\ dec = NoValue

\* no text has been given to the parser
ParseIdle ==
    /\ res = NoValue
    /\ text = <<>>
    /\ parser = NoValue
    /\ layout = NoValue

Init ==
    /\ tr_layout \in Layouts
    /\ op = "idle"
    /\ data = NoValue
    /\ enc = NoValue
    /\ handed = None
    /\ raw_data = NoValue
    /\ dec = NoValue
    /\ res = NoValue
    /\ text = <<>>
    /\ parser = NoValue
    /\ layout = NoValue
    /\ LoadIdle
    /\ ReadIdle
    /\ CallIdle
    /\ QueryIdle
    /\ FutureIdle

\* Session::request: data::encode(data, tr_layout)
Encode ==
    /\ op = "idle"
    /\ \E d \in DataSet(tr_layout) :
        /\ data' = d
        /\ enc' = encode(d, tr_layout)
    /\ handed' = HandedOn(enc')
    /\ op' = "encode"
    /\ UNCHANGED <<tr_layout, raw_data, dec, res, text, parser, layout, loadVars, readVars, callVars, queryVars, futureVars>>

\* the encoded bytes come back as one buffer and are decoded
DecodeEncoded ==
    /\ op = "encode"
    /\ enc.tag = "Ok"
    /\ ~tr_layout.block_mode
    /\ raw_data' = [kind |-> "NonBlock", buf |-> enc.val]
    /\ dec' = decode(tr_layout, raw_data', <<>>)
    /\ op' = "decode_encoded"
    /\ UNCHANGED <<tr_layout, data, enc, handed, res, text, parser, layout, loadVars, readVars, callVars, queryVars, futureVars>>

\* Session::request: data::decode(tr_layout, d) on a received buffer
DecodeNonBlock ==
    /\ op = "idle"
    /\ ~tr_layout.block_mode
    /\ \E buf \in NonBlockBuffers(tr_layout) :
        /\ raw_data' = [kind |-> "NonBlock", buf |-> buf]
        /\ dec' = decode(tr_layout, raw_data', <<>>)
    /\ op' = "decode"
    /\ UNCHANGED <<tr_layout, data, enc, handed, res, text, parser, layout, loadVars, readVars, callVars, queryVars, futureVars>>

\* Session::request: data::decode(tr_layout, d) on received blocks
DecodeBlock ==
    /\ op = "idle"
    /\ tr_layout.block_mode
    /\ \E rt \in RawTables(tr_layout) :
        /\ raw_data' = [kind |-> "Block", tbl |-> rt.tbl, order |-> rt.order]
        /\ dec' = decode(tr_layout, raw_data', rt.order)
    /\ op' = "decode"
    /\ UNCHANGED <<tr_layout, data, enc, handed, res, text, parser, layout, loadVars, readVars, callVars, queryVars, futureVars>>

Next == Encode \/ DecodeEncoded \/ DecodeNonBlock \/ DecodeBlock

Spec == Init /\ [][Next]_vars

\* a RES file has been read and is about to be parsed
InitParse ==
    /\ res \in ResSet
    /\ text = Render(res)
    /\ parser = TrLayout_from_str
    /\ layout = NoValue
    /\ LoadIdle
    /\ ReadIdle
    /\ CallIdle
    /\ QueryIdle
    /\ FutureIdle
    /\ tr_layout = NoValue
    /\ op = "idle"
    /\ data = NoValue
    /\ enc = NoValue
    /\ handed = None
    /\ raw_data = NoValue
    /\ dec = NoValue

\* the parser has come to p: the result is there once the run has ended
Reach(p) ==
    /\ parser' = p
    /\ layout' = IF p.pc = "done" THEN Returned(text, p) ELSE layout

\* load_dir: one step of TrLayout::from_str on the text of a file
Parse ==
    /\ parser.pc # "done"
    /\ Reach(from_reader(text, parser))
    /\ UNCHANGED <<res, text, tr_layout, op, data, enc, handed, raw_data, dec, loadVars, readVars, callVars, queryVars, futureVars>>

NextParse == Parse

SpecParse == InitParse /\ [][NextParse]_vars

\* a RES text that differs from a well-formed one in one place is about to
\* be parsed
InitSyntax ==
    /\ res \in ResCases
    /\ text = CaseText(res)
    /\ parser = TrLayout_from_str
    /\ layout = NoValue
    /\ LoadIdle
    /\ ReadIdle
    /\ CallIdle
    /\ QueryIdle
    /\ FutureIdle
    /\ tr_layout = NoValue
    /\ op = "idle"
    /\ data = NoValue
    /\ enc = NoValue
    /\ handed = None
    /\ raw_data = NoValue
    /\ dec = NoValue

SpecSyntax == InitSyntax /\ [][NextParse]_vars

\* the offset of the description of the TR in the well-formed text, one
\* character between two commas
DescOffset ==
    CHOOSE k \in 1..(Len(PlainText) - 2) :
        /\ PlainText[k] = "," /\ PlainText[k + 2] = ","
        /\ \A j \in 1..(k - 1) : ~(PlainText[j] = "," /\ PlainText[j + 2] = ",")

\* the well-formed text with a comment that does not end put in place of
\* what follows one of its commas, or of all of it, and the well-formed
\* text with a blank for the description of the TR, an empty value between
\* two commas
EndlessCases ==
    {[PlainCase EXCEPT !.family = "comment", !.at = k, !.by = "/*"] :
        k \in CommaOffsets \cup {0}}
    \cup {[PlainCase EXCEPT !.family = "blank", !.at = DescOffset, !.by = " "]}

EndlessText(c) ==
    IF c.family = "comment"
    THEN Slice(PlainText, 0, c.at) \o <<"/", "*", " ", "c", "\n">>
    ELSE CaseText(c)

\* a text is about to be parsed
InitEndless ==
    /\ res \in ResCases \cup EndlessCases
    /\ text = EndlessText(res)
    /\ parser = TrLayout_from_str
    /\ layout = NoValue
    /\ CodecIdle
    /\ LoadIdle
    /\ ReadIdle
    /\ CallIdle
    /\ QueryIdle
    /\ FutureIdle

\* the thread that parses the text goes on until from_str returns
SpecEndless == InitEndless /\ [][NextParse]_vars /\ WF_vars(Parse)

\* load_dir has queued one task for each file of the directory
InitLoad ==
    /\ dir \in Dirs
    /\ todo = dir
    /\ chan = <<>>
    /\ layout_tbl = EmptyMap
    /\ loaded = NoValue
    /\ panic_count = 0
    /\ tr_layout = NoValue
    /\ op = "idle"
    /\ data = NoValue
    /\ enc = NoValue
    /\ handed = None
    /\ raw_data = NoValue
    /\ dec = NoValue
    /\ res = NoValue
    /\ text = <<>>
    /\ parser = NoValue
    /\ layout = NoValue
    /\ ReadIdle
    /\ CallIdle
    /\ QueryIdle
    /\ FutureIdle

codecVars == <<tr_layout, op, data, enc, handed, raw_data, dec>>
parseVars == <<res, text, parser, layout>>

\* a task of the pool: tx.send(parse_layout()).unwrap(); the send fails and
\* the task panics once load_dir has returned and dropped the receiver
Finish(file) ==
    /\ file \in todo
    /\ todo' = todo \ {file}
    /\ IF loaded = NoValue
       THEN chan' = Append(chan, parse_layout(file)) /\ UNCHANGED panic_count
       ELSE panic_count' = panic_count + 1 /\ UNCHANGED chan
    /\ UNCHANGED <<dir, layout_tbl, loaded, codecVars, parseVars, readVars, callVars, queryVars, futureVars>>

\* what the receive loop comes to on a result: the table, or the error
\* load_dir returns
Received(result) ==
    IF result.tag = "Err" THEN result ELSE Merge(layout_tbl, result.val)

\* the receive loop has come to r
Receive(r) ==
    /\ chan' = Tail(chan)
    /\ layout_tbl' = IF r.tag = "Ok" THEN r.val ELSE layout_tbl
    /\ loaded' = IF r.tag = "Ok" THEN loaded ELSE r

\* while let Ok(result) = rx.recv() { .. }
Recv ==
    /\ loaded = NoValue
    /\ chan # <<>>
    /\ Receive(Received(Head(chan)))
    /\ UNCHANGED <<dir, todo, panic_count, codecVars, parseVars, readVars, callVars, queryVars, futureVars>>

\* rx.recv() fails once every sender is dropped: pool.join(), the two
\* assert_eq!, Ok(layout_tbl)
Return ==
    /\ loaded = NoValue
    /\ chan = <<>>
    /\ todo = {}
    /\ loaded' = IF panic_count = 0 THEN Ok(layout_tbl) ELSE [tag |-> "Panic"]
    /\ UNCHANGED <<dir, todo, chan, layout_tbl, panic_count, codecVars, parseVars, readVars, callVars, queryVars, futureVars>>

NextLoad == (\E file \in dir : Finish(file)) \/ Recv \/ Return

SpecLoad == InitLoad /\ [][NextLoad]_vars

\* a StrRead has been made on a text: StrRead::new
InitRead ==
    /\ text \in ReadTexts
    /\ reader = NewState
    /\ symbols = <<>>
    /\ last = NoValue
    /\ res = NoValue
    /\ parser = NoValue
    /\ layout = NoValue
    /\ LoadIdle
    /\ CallIdle
    /\ QueryIdle
    /\ FutureIdle
    /\ tr_layout = NoValue
    /\ op = "idle"
    /\ data = NoValue
    /\ enc = NoValue
    /\ handed = None
    /\ raw_data = NoValue
    /\ dec = NoValue

\* the call of the reader has returned n
Called(name, n) ==
    /\ reader' = n.state
    /\ symbols' = IF name = "next_sym" /\ n.some THEN Append(symbols, n.sym) ELSE symbols
    /\ last' = [call |-> name, ret |-> IF n.some THEN Some(n.sym) ELSE None]

\* StrRead::next_sym
NextSym ==
    /\ reader # NoValue
    /\ Called("next_sym", StrRead_next_sym(text, reader))
    /\ UNCHANGED <<codecVars, parseVars, loadVars, callVars, queryVars, futureVars>>

\* StrRead::peek_sym
PeekSym ==
    /\ reader # NoValue
    /\ Called("peek_sym", StrRead_peek_sym(text, reader))
    /\ UNCHANGED <<codecVars, parseVars, loadVars, callVars, queryVars, futureVars>>

NextRead == NextSym \/ PeekSym

SpecRead == InitRead /\ [][NextRead]_vars

(***************************************************************************)
(* The calls of the API (src/src/os/windows).  Each caller is a thread     *)
(* that makes one call at a time: it takes the handle of the executor the  *)
(* way the function does, posts a call request to the window of the        *)
(* executor thread and waits for what the request returns, then, in login  *)
(* and request, for the response the session window sends it, and drops    *)
(* the handle as the function returns.  The executor thread takes the call *)
(* requests one at a time and runs each of them in the vendor DLL.         *)
(***************************************************************************)
Callers == 1..MaxCallers

\* Session::connect and Session::login take executor.lock_handle()
LockedCalls == {"connect", "login"}
\* Session::request and is_connected take executor.handle()
SharedCalls == {"request", "is_connected"}
\* RealEvent::unsubscribe_all calls Executor::unadvise_window on the
\* executor itself
DirectCalls == {"unsubscribe_all"}

\* the functions that go on to wait for a response of the server
AwaitedCalls == {"login", "request"}

InitCall ==
    /\ call = [t \in Callers |-> [name |-> "", pc |-> "idle"]]
    /\ lock = [writer |-> 0, readers |-> {}]
    /\ queue = <<>>
    /\ running = None
    /\ LoadIdle
    /\ ReadIdle
    /\ QueryIdle
    /\ FutureIdle
    /\ tr_layout = NoValue
    /\ op = "idle"
    /\ data = NoValue
    /\ enc = NoValue
    /\ handed = None
    /\ raw_data = NoValue
    /\ dec = NoValue
    /\ res = NoValue
    /\ text = <<>>
    /\ parser = NoValue
    /\ layout = NoValue

restVars == <<codecVars, parseVars, loadVars, readVars, queryVars, futureVars>>

\* the caller stands at pc
At(t, pc) == call' = [call EXCEPT ![t].pc = pc]

\* a thread calls a function of the API
Enter(t, name) ==
    /\ call[t].pc = "idle"
    /\ call' = [call EXCEPT ![t] = [name |-> name,
                                   pc |-> IF name \in DirectCalls THEN "post" ELSE "lock"]]
    /\ UNCHANGED <<lock, queue, running, restVars>>

\* Executor::lock_handle: self.handle.write() returns once the lock holds
\* neither a writer nor a reader
lock_handle(l) == l.writer = 0 /\ l.readers = {}

\* Executor::handle: self.handle.read() returns once the lock holds no
\* writer
handle(l) == l.writer = 0

\* the caller takes the handle of the executor
Acquire(t) ==
    /\ call[t].pc = "lock"
    /\ IF call[t].name \in LockedCalls
       THEN lock_handle(lock) /\ lock' = [lock EXCEPT !.writer = t]
       ELSE handle(lock) /\ lock' = [lock EXCEPT !.readers = @ \cup {t}]
    /\ At(t, "post")
    /\ UNCHANGED <<queue, running, restVars>>

\* Session::request: data::encode(data, tr_layout)? returns an error
EncodeFailed(t) ==
    /\ call[t].pc = "post"
    /\ call[t].name = "request"
    /\ At(t, "return")
    /\ UNCHANGED <<lock, queue, running, restVars>>

\* req!: PostMessageA of the call request, then rx_ret.recv()
Post(t) ==
    /\ call[t].pc = "post"
    /\ queue' = Append(queue, [caller |-> t, name |-> call[t].name])
    /\ At(t, "recv")
    /\ UNCHANGED <<lock, running, restVars>>

\* Executor::window_proc: the executor thread takes a call request and goes
\* into on_request, which calls the function of the DLL
Dispatch ==
    /\ running = None
    /\ queue # <<>>
    /\ running' = Some(Head(queue))
    /\ queue' = Tail(queue)
    /\ UNCHANGED <<call, lock, restVars>>

\* on_request: the function of the DLL has returned, tx_ret.try_send; the
\* caller goes on to wait for the response where the function does and the
\* DLL took the request (ok), and returns otherwise
Reply(ok) ==
    /\ running # None
    /\ At(running.val.caller,
          IF running.val.name \in AwaitedCalls /\ ok THEN "await" ELSE "return")
    /\ running' = None
    /\ UNCHANGED <<lock, queue, restVars>>

\* Session::window_proc sends the response (XM_LOGIN, XM_RECEIVE_DATA), or
\* the wait ends with a timeout
Respond(t) ==
    /\ call[t].pc = "await"
    /\ At(t, "return")
    /\ UNCHANGED <<lock, queue, running, restVars>>

\* the function returns and its guard of the handle is dropped
Leave(t) ==
    /\ call[t].pc = "return"
    /\ lock' = [writer |-> IF lock.writer = t THEN 0 ELSE lock.writer,
                readers |-> lock.readers \ {t}]
    /\ call' = [call EXCEPT ![t] = [name |-> "", pc |-> "idle"]]
    /\ UNCHANGED <<queue, running, restVars>>

NextCall ==
    \/ \E t \in Callers : \E name \in LockedCalls \cup SharedCalls \cup DirectCalls :
          Enter(t, name)
    \/ \E t \in Callers : Acquire(t)
    \/ \E t \in Callers : EncodeFailed(t)
    \/ \E t \in Callers : Post(t)
    \/ Dispatch
    \/ \E ok \in BOOLEAN : Reply(ok)
    \/ \E t \in Callers : Respond(t)
    \/ \E t \in Callers : Leave(t)

SpecCall == InitCall /\ [][NextCall]_vars

(***************************************************************************)
(* Session::request and the messages of its response                       *)
(* (src/src/os/windows/session.rs).  Each caller makes one request: the    *)
(* executor thread runs ETK_Request for it and the DLL gives it a request  *)
(* id, the caller puts a QueryState into state_tbl under the id and waits  *)
(* on rx_res.  The DLL posts the messages of the response to the session   *)
(* window, XM_RECEIVE_DATA with the data packet (1), the message packet    *)
(* (2) and the completion (4) in this order, or XM_TIMEOUT, and the        *)
(* executor thread handles them in window_proc, oldest first.              *)
(***************************************************************************)
ReqIds == 0..(MaxReqIds - 1)

\* Session::new: every place of state_tbl is None
InitQuery ==
    /\ requests = [t \in Callers |-> [pc |-> "idle", req_id |-> -1, rx_res |-> None,
                                      ret |-> None]]
    /\ state_tbl = [r \in ReqIds |-> None]
    /\ pending = [r \in ReqIds |-> [next |-> "free", request |-> 0]]
    /\ inbox = <<>>
    /\ seen = None
    /\ CodecIdle
    /\ ParseIdle
    /\ LoadIdle
    /\ ReadIdle
    /\ CallIdle
    /\ FutureIdle

otherVars == <<codecVars, parseVars, loadVars, readVars, callVars, futureVars>>

\* window_proc has panicked: state_guard.as_mut().unwrap() on an empty place,
\* or state.res.take().unwrap() on a state without a response
Panicked ==
    /\ seen # None
    /\ \/ ~seen.val.state.some
       \/ seen.val.msg.wparam = 4 /\ ~seen.val.state.val.res.some

\* handle.request(..)? has given the request id r: the executor thread has
\* run ETK_Request
Request(t, r) ==
    /\ requests[t].pc = "idle"
    /\ ~Panicked
    /\ pending[r].next = "free"
    /\ requests' = [requests EXCEPT ![t].pc = "issued", ![t].req_id = r]
    /\ pending' = [pending EXCEPT ![r] = [next |-> "data", request |-> t]]
    /\ UNCHANGED <<state_tbl, inbox, seen, otherVars>>

\* handle.request(..)? has returned the error of ETK_Request
Refused(t) ==
    /\ requests[t].pc = "idle"
    /\ ~Panicked
    /\ requests' = [requests EXCEPT ![t].pc = "done", ![t].ret = Some("Err")]
    /\ UNCHANGED <<state_tbl, pending, inbox, seen, otherVars>>

\* assert!(state.is_none()); *state = Some(QueryState { .. })
Install(t) ==
    /\ requests[t].pc = "issued"
    /\ IF state_tbl[requests[t].req_id].some
       THEN /\ requests' = [requests EXCEPT ![t].pc = "done", ![t].ret = Some("Panic")]
            /\ UNCHANGED state_tbl
       ELSE /\ requests' = [requests EXCEPT ![t].pc = "waiting"]
            /\ state_tbl' = [state_tbl EXCEPT ![requests[t].req_id] =
                                Some([request |-> t, res |-> None])]
    /\ UNCHANGED <<pending, inbox, seen, otherVars>>

\* rx_res.recv_timeout(..) has returned Ok(res)
Received_res(t) ==
    /\ requests[t].pc = "waiting"
    /\ requests[t].rx_res.some
    /\ requests' = [requests EXCEPT ![t].pc = "done", ![t].ret = Some("Ok")]
    /\ UNCHANGED <<state_tbl, pending, inbox, seen, otherVars>>

\* the QueryState of the caller, the sender of its channel in it, is in
\* state_tbl
Installed(t) ==
    /\ state_tbl[requests[t].req_id].some
    /\ state_tbl[requests[t].req_id].val.request = t

\* rx_res.recv_timeout(..) has returned Err(Timeout), and the caller empties
\* its place of state_tbl, or Err(Disconnected), the sender dropped
GiveUp(t) ==
    /\ requests[t].pc = "waiting"
    /\ ~requests[t].rx_res.some
    /\ requests' = [requests EXCEPT ![t].pc = "done", ![t].ret = Some("TimedOut")]
    /\ state_tbl' = IF Installed(t)
                    THEN [state_tbl EXCEPT ![requests[t].req_id] = None]
                    ELSE state_tbl
    /\ UNCHANGED <<pending, inbox, seen, otherVars>>

\* the wparam of the XM_RECEIVE_DATA the DLL posts next, and what it posts
\* after it
WparamOf(next) == CASE next = "data" -> 1 [] next = "msg" -> 2 [] next = "end" -> 4
After(next) == CASE next = "data" -> "msg" [] next = "msg" -> "end" [] next = "end" -> "posted"

\* the DLL has posted the next XM_RECEIVE_DATA of the response to r
PostData(r) ==
    /\ pending[r].next \in {"data", "msg", "end"}
    /\ inbox' = Append(inbox, [msg |-> "XM_RECEIVE_DATA", wparam |-> WparamOf(pending[r].next),
                                req_id |-> r, request |-> pending[r].request])
    /\ pending' = [pending EXCEPT ![r].next = After(pending[r].next)]
    /\ UNCHANGED <<requests, state_tbl, seen, otherVars>>

\* the DLL has posted XM_TIMEOUT for r in place of the rest of the response
PostTimeout(r) ==
    /\ pending[r].next \in {"data", "msg", "end"}
    /\ inbox' = Append(inbox, [msg |-> "XM_TIMEOUT", wparam |-> 0,
                                req_id |-> r, request |-> pending[r].request])
    /\ pending' = [pending EXCEPT ![r].next = "posted"]
    /\ UNCHANGED <<requests, state_tbl, seen, otherVars>>

\* state.res.get_or_insert(IncompleteQueryResponse::empty()) and the packet
\* put into it
WithPacket(state, wparam) ==
    [state EXCEPT !.res = Some((IF state.res.some THEN state.res.val ELSE {}) \cup {wparam})]

\* state.tx_res.send(state.res.take().unwrap()): the response is in the
\* channel of the request, if its receiver is still there
Sent(state) ==
    IF requests[state.request].pc \in {"issued", "waiting"}
    THEN [requests EXCEPT ![state.request].rx_res = Some(state.res.val)]
    ELSE requests

\* window_proc on XM_RECEIVE_DATA with the place of state_tbl holding state
OnReceiveData(m, state) ==
    /\ seen' = Some([msg |-> m, state |-> state])
    /\ IF ~state.some \/ (m.wparam = 4 /\ ~state.val.res.some)
       THEN UNCHANGED <<requests, state_tbl, pending>>
       ELSE IF m.wparam = 4
       THEN /\ requests' = Sent(state.val)
            /\ state_tbl' = [state_tbl EXCEPT ![m.req_id] = None]
            /\ pending' = [pending EXCEPT ![m.req_id].next = "free"]
       ELSE /\ state_tbl' = [state_tbl EXCEPT ![m.req_id] = Some(WithPacket(state.val, m.wparam))]
            /\ UNCHANGED <<requests, pending>>

\* window_proc on XM_TIMEOUT
OnTimeout(m) ==
    /\ state_tbl' = [state_tbl EXCEPT ![m.req_id] = None]
    /\ pending' = [pending EXCEPT ![m.req_id].next = "free"]
    /\ UNCHANGED <<requests, seen>>

\* Session::window_proc: the executor thread dispatches the oldest message
\* of the session window
Handle ==
    /\ inbox # <<>>
    /\ ~Panicked
    /\ inbox' = Tail(inbox)
    /\ IF Head(inbox).msg = "XM_RECEIVE_DATA"
       THEN OnReceiveData(Head(inbox), state_tbl[Head(inbox).req_id])
       ELSE OnTimeout(Head(inbox))
    /\ UNCHANGED otherVars

NextQuery ==
    \/ \E t \in Callers, r \in ReqIds : Request(t, r)
    \/ \E t \in Callers : Refused(t)
    \/ \E t \in Callers : Install(t)
    \/ \E t \in Callers : Received_res(t)
    \/ \E t \in Callers : GiveUp(t)
    \/ \E r \in ReqIds : PostData(r)
    \/ \E r \in ReqIds : PostTimeout(r)
    \/ Handle

SpecQuery == InitQuery /\ [][NextQuery]_vars

(***************************************************************************)
(* RetFuture and the caller thread (src/src/os/windows/caller.rs).  call!  *)
(* makes a channel of one place and an empty waker, sends the CallerFn to  *)
(* the caller thread and gives the RetFuture to a task, which polls it     *)
(* when it is first awaited and whenever its waker has been woken.  A poll *)
(* is two steps, the try_recv and the store of the waker, and so is the    *)
(* ret! of dispatch_func, the try_send and the take of the waker.          *)
(***************************************************************************)
Futures == 1..MaxFutures

InitFuture ==
    /\ futures = [f \in Futures |-> [pc |-> "new", rx_ret |-> None, waker |-> None,
                                     woken |-> FALSE]]
    /\ tx_func = <<>>
    /\ dispatching = None
    /\ CodecIdle
    /\ ParseIdle
    /\ LoadIdle
    /\ ReadIdle
    /\ CallIdle
    /\ QueryIdle

\* call!: the CallerFn is sent and the RetFuture is awaited
Call(f) ==
    /\ futures[f].pc = "new"
    /\ futures' = [futures EXCEPT ![f].pc = "runnable"]
    /\ tx_func' = Append(tx_func, f)
    /\ UNCHANGED <<dispatching, codecVars, parseVars, loadVars, readVars, callVars, queryVars>>

\* the task of the future is to be polled: it is awaited for the first
\* time, or its waker has been woken
Scheduled(f) ==
    \/ futures[f].pc = "runnable"
    \/ futures[f].pc = "pending" /\ futures[f].woken

\* RetFuture::poll up to self.rx_ret.try_recv(): Poll::Ready(ret), the
\* future then dropped, or the else branch entered
Poll(f) ==
    /\ Scheduled(f)
    /\ futures' = [futures EXCEPT ![f] =
                      IF futures[f].rx_ret.some
                      THEN [pc |-> "ready", rx_ret |-> None, waker |-> None, woken |-> FALSE]
                      ELSE [futures[f] EXCEPT !.pc = "polled", !.woken = FALSE]]
    /\ UNCHANGED <<tx_func, dispatching, codecVars, parseVars, loadVars, readVars, callVars,
                   queryVars>>

\* *self.waker.lock().unwrap() = Some(cx.waker().clone()); Poll::Pending
StoreWaker(f) ==
    /\ futures[f].pc = "polled"
    /\ futures' = [futures EXCEPT ![f].pc = "pending", ![f].waker = Some(f)]
    /\ UNCHANGED <<tx_func, dispatching, codecVars, parseVars, loadVars, readVars, callVars,
                   queryVars>>

\* the caller thread has received the CallerFn and run its function
Dispatch_func ==
    /\ dispatching = None
    /\ tx_func # <<>>
    /\ dispatching' = Some([func |-> Head(tx_func), sent |-> FALSE])
    /\ tx_func' = Tail(tx_func)
    /\ UNCHANGED <<futures, codecVars, parseVars, loadVars, readVars, callVars, queryVars>>

\* ret!: let _ = tx_ret.try_send(ret)
TrySend ==
    /\ dispatching # None
    /\ ~dispatching.val.sent
    /\ futures' = [futures EXCEPT ![dispatching.val.func].rx_ret = Some("ret")]
    /\ dispatching' = Some([dispatching.val EXCEPT !.sent = TRUE])
    /\ UNCHANGED <<tx_func, codecVars, parseVars, loadVars, readVars, callVars, queryVars>>

\* ret!: if let Some(waker) = waker.lock().unwrap().take() { waker.wake() }
TakeWaker ==
    /\ dispatching # None
    /\ dispatching.val.sent
    /\ futures' = [futures EXCEPT
                      ![dispatching.val.func].woken =
                          futures[dispatching.val.func].woken
                              \/ futures[dispatching.val.func].waker.some,
                      ![dispatching.val.func].waker = None]
    /\ dispatching' = None
    /\ UNCHANGED <<tx_func, codecVars, parseVars, loadVars, readVars, callVars, queryVars>>

NextFuture ==
    \/ \E f \in Futures : Call(f)
    \/ \E f \in Futures : Poll(f)
    \/ \E f \in Futures : StoreWaker(f)
    \/ Dispatch_func
    \/ TrySend
    \/ TakeWaker

SpecFuture == InitFuture /\ [][NextFuture]_vars

\* the executor polls a task that is scheduled, a poll that has begun ends,
\* and the loop of the caller thread goes on
SpecFutureFair ==
    /\ SpecFuture
    /\ \A f \in Futures : WF_vars(Poll(f)) /\ WF_vars(StoreWaker(f))
    /\ WF_vars(Dispatch_func)
    /\ WF_vars(TrySend)
    /\ WF_vars(TakeWaker)

\* the RES texts that declare one output block
DecodeCases == {r \in ResSet : Len(r.blocks) = 1 /\ r.blocks[1].block_type = "Output"}

\* a RES file is about to be parsed, its layout to decode a response with
InitDecode ==
    /\ res \in DecodeCases
    /\ text = Render(res)
    /\ parser = TrLayout_from_str
    /\ layout = NoValue
    /\ CodecIdle
    /\ LoadIdle
    /\ ReadIdle
    /\ CallIdle
    /\ QueryIdle
    /\ FutureIdle

\* the responses Session::window_proc hands to decode for the layout: blocks
\* by name if the layout is in block mode, one buffer if it is not
ReceivedFor(l) ==
    IF l.block_mode
    THEN {[kind |-> "Block", tbl |-> (l.out_blocks[k].name :> r),
           order |-> <<l.out_blocks[k].name>>] :
            k \in 1..Len(l.out_blocks), r \in SeqsUpTo({49, 32}, 1 + MaxTail)}
    ELSE {[kind |-> "NonBlock", buf |-> c \o b] :
            c \in {<<>>, <<48, 48, 48, 48, 48>>, <<48, 48, 48, 48, 49>>},
            b \in SeqsUpTo({49}, 1 + MaxTail)}

\* Session::request: data::decode(tr_layout, d) with a layout load_dir has
\* parsed
DecodeParsed ==
    /\ layout # NoValue
    /\ layout.tag = "Ok"
    /\ op = "idle"
    /\ \E d \in ReceivedFor(layout.val) :
        /\ raw_data' = d
        /\ dec' = decode(layout.val, d, IF d.kind = "Block" THEN d.order ELSE <<>>)
    /\ tr_layout' = layout.val
    /\ op' = "decode"
    /\ UNCHANGED <<data, enc, handed, parseVars, loadVars, readVars, callVars, queryVars,
                   futureVars>>

NextDecode == Parse \/ DecodeParsed

SpecDecode == InitDecode /\ [][NextDecode]_vars

(***************************************************************************)
(* Reference reading of the Data held in the state against the layout:     *)
(* where each declared block and field lies in the encoded buffer, and     *)
(* which declared block, record or field is the first one encode cannot    *)
(* accept.                                                                 *)
(***************************************************************************)
Encoded == op \in {"encode", "decode_encoded"}
Decoded == op \in {"decode", "decode_encoded"}

Declared == DirBlocks(tr_layout, data.data_type)

Attr == IF tr_layout.attr_byte THEN 1 ELSE 0

ShapeOk(k) ==
    /\ Declared[k].name \in DOMAIN data.blocks
    /\ data.blocks[Declared[k].name].kind = IF Declared[k].occurs THEN "Array" ELSE "Block"

\* the records data holds for declared block k
RecsOf(k) ==
    LET b == data.blocks[Declared[k].name]
    IN  IF Declared[k].occurs THEN b.recs ELSE <<b.fields>>

HasPrefix(k) == Declared[k].occurs /\ ~tr_layout.block_mode

BlockSize(k) == (IF HasPrefix(k) THEN 5 ELSE 0) + Len(RecsOf(k)) * Declared[k].len

BlockStart(k) == SumSeq([h \in 1..(k - 1) |-> BlockSize(h)])

FieldStart(k, j, i) ==
    BlockStart(k) + (IF HasPrefix(k) THEN 5 ELSE 0) + (j - 1) * Declared[k].len
    + SumSeq([h \in 1..(i - 1) |-> Declared[k].fields[h].len + Attr])

\* the value of a field in a record: under the current name, else under the
\* legacy name
Current(rec, fl) == IF fl.name \in DOMAIN rec THEN rec[fl.name] ELSE rec[fl.name_old]

\* the array of declared block k is too long for a count prefix
TooMany(k) == ShapeOk(k) /\ HasPrefix(k) /\ Len(RecsOf(k)) >= 100000

\* block, record and field indexes of the declared blocks whose records
\* encode may walk
Positions ==
    UNION {{<<k, j, i>> : j \in 1..Len(RecsOf(k)), i \in 1..Len(Declared[k].fields)}
           : k \in {h \in 1..Len(Declared) : ShapeOk(h) /\ ~TooMany(h)}}

Defects ==
    {<<k, 0, 0, "MissingBlock">> :
        k \in {h \in 1..Len(Declared) : Declared[h].name \notin DOMAIN data.blocks}}
    \cup {<<k, 0, 0, "MismatchBlockType">> :
        k \in {h \in 1..Len(Declared) :
                Declared[h].name \in DOMAIN data.blocks /\ ~ShapeOk(h)}}
    \cup {<<k, 0, 0, "ExceedArrayLength">> : k \in {h \in 1..Len(Declared) : TooMany(h)}}
    \cup {<<p[1], p[2], p[3], "MissingField">> :
        p \in {q \in Positions :
                LET fl == Declared[q[1]].fields[q[3]]
                IN  {fl.name, fl.name_old} \cap DOMAIN RecsOf(q[1])[q[2]] = {}}}
    \cup {<<p[1], p[2], p[3], "ExceedFieldLength">> :
        p \in {q \in Positions :
                LET fl == Declared[q[1]].fields[q[3]]
                    rec == RecsOf(q[1])[q[2]]
                IN  /\ {fl.name, fl.name_old} \cap DOMAIN rec # {}
                    /\ Len(EucKrEncode(Current(rec, fl))) > fl.len}}

Before(d, e) ==
    \/ d[1] < e[1]
    \/ d[1] = e[1] /\ d[2] < e[2]
    \/ d[1] = e[1] /\ d[2] = e[2] /\ d[3] <= e[3]

\* the first thing, in walking order, that encode cannot accept
FirstDefect ==
    IF data.tr_code # tr_layout.code THEN <<0, 0, 0, "MismatchLayout">>
    ELSE IF Defects = {} THEN <<0, 0, 0, "None">>
    ELSE CHOOSE d \in Defects : \A e \in Defects : Before(d, e)

FailsWith(kind) == enc.tag = "Err" /\ enc.err.kind = kind

(***************************************************************************)
(* Claims about the codec.                                                 *)
(***************************************************************************)
\* every character of every value of data has an EUC-KR encoding
Representable ==
    \A k \in 1..Len(Declared) : \A j \in 1..Len(RecsOf(k)) :
        \A n \in DOMAIN RecsOf(k)[j] : \A c \in 1..Len(RecsOf(k)[j][n]) :
            LET ch == RecsOf(k)[j][n][c] IN ch < 128 \/ ch \in DOMAIN EucKrIndex

\* data holds exactly the declared output blocks, each record keyed exactly
\* by the current names of its block's fields, in representable characters
Conforms ==
    /\ data.data_type = "Output"
    /\ DOMAIN data.blocks = {Declared[k].name : k \in 1..Len(Declared)}
    /\ \A k \in 1..Len(Declared) : \A j \in 1..Len(RecsOf(k)) :
          DOMAIN RecsOf(k)[j] = {Declared[k].fields[i].name : i \in 1..Len(Declared[k].fields)}
    /\ Representable

TrimmedBlock(b) ==
    IF b.kind = "Block"
    THEN SingleBlock([n \in DOMAIN b.fields |-> TrimMatches(b.fields[n])])
    ELSE ArrayBlock([j \in 1..Len(b.recs) |->
                        [n \in DOMAIN b.recs[j] |-> TrimMatches(b.recs[j][n])]])

\* data with every value trimmed of leading and trailing control characters
\* and spaces
Trimmed(d) == [d EXCEPT !.blocks = [n \in DOMAIN d.blocks |-> TrimmedBlock(d.blocks[n])]]

\* C1 as stated: for any layout and any Data that encode accepts, decoding
\* the encoded bytes with the same layout gives the Data back, values
\* trimmed.
C1_RoundTripAnyData ==
    op = "decode_encoded" => dec.tag = "Ok" /\ dec.data = Trimmed(data)

\* C1 amended: for a layout that is not block-mode and Output Data that
\* encode accepts, holding exactly the declared output blocks with every
\* record keyed exactly by the current field names and every character
\* representable in EUC-KR, decoding the encoded bytes with the same layout
\* gives the Data back, each value trimmed at both ends of control
\* characters and spaces.
C1_RoundTrip ==
    (op = "decode_encoded" /\ Conforms) => dec.tag = "Ok" /\ dec.data = Trimmed(data)

C1_Witness ==
    /\ op = "decode_encoded"
    /\ Conforms
    /\ dec.tag = "Ok"
    /\ Trimmed(data) # data
    /\ \E k \in 1..Len(Declared) : Declared[k].occurs /\ Len(RecsOf(k)) = 2
    /\ \E k \in 1..Len(Declared) : \E n \in DOMAIN RecsOf(k)[1] : 44032 \in
            {RecsOf(k)[1][n][c] : c \in 1..Len(RecsOf(k)[1][n])}

\* C2: a field whose encoded value is longer than its len makes encode fail
\* with ExceedFieldLength naming that field, and a buffer that encode
\* returns holds no shortened value.
C2_ExceedFieldLength ==
    Encoded =>
        /\ FirstDefect[4] = "ExceedFieldLength" <=> FailsWith("ExceedFieldLength")
        /\ FailsWith("ExceedFieldLength") =>
              /\ enc.err.block = Declared[FirstDefect[1]].name
              /\ enc.err.field = Declared[FirstDefect[1]].fields[FirstDefect[3]].name
        /\ enc.tag = "Ok" => \A d \in Defects : d[4] # "ExceedFieldLength"

\* "12345" for a field of len 4
C2_Witness ==
    /\ Encoded
    /\ FailsWith("ExceedFieldLength")
    /\ LET fl == Declared[FirstDefect[1]].fields[FirstDefect[3]]
       IN  /\ fl.len = 4
           /\ Current(RecsOf(FirstDefect[1])[FirstDefect[2]], fl) = <<49, 50, 51, 52, 53>>

\* C3: a buffer that encode returns holds, block after block in declared
\* order and record after record, every field in layout order as its encoded
\* value followed by NUL bytes up to len (and one more with the attribute
\* byte), so that every record takes the block's len bytes.
C3_EncodedLayout ==
    (Encoded /\ enc.tag = "Ok") =>
        /\ \A k \in 1..Len(Declared) : ShapeOk(k)
        /\ Len(enc.val) = BlockStart(Len(Declared) + 1)
        /\ \A p \in Positions :
              LET fl == Declared[p[1]].fields[p[3]]
                  rec == RecsOf(p[1])[p[2]]
                  at == FieldStart(p[1], p[2], p[3])
              IN  \E n \in {fl.name, fl.name_old} \cap DOMAIN rec :
                      LET v == EucKrEncode(rec[n])
                      IN  /\ Len(v) <= fl.len
                          /\ Slice(enc.val, at, at + fl.len + Attr)
                                = v \o Repeat(0, fl.len + Attr - Len(v))

\* "096530" and "1" in fields of len 6 and 1, no attribute byte: 7 bytes
C3_Witness ==
    /\ Encoded
    /\ ~tr_layout.attr_byte
    /\ Len(Declared) = 1
    /\ ShapeOk(1)
    /\ [i \in 1..Len(Declared[1].fields) |-> Declared[1].fields[i].len] = <<6, 1>>
    /\ RecsOf(1) = <<("code" :> <<48, 57, 54, 53, 51, 48>>) @@ ("nrec" :> <<49>>)>>
    /\ enc = Ok(<<48, 57, 54, 53, 51, 48, 49>>)

\* the number five decimal digits spell
FiveDigits(b) ==
    IF \A i \in 1..5 : b[i] >= 48 /\ b[i] <= 57
    THEN (b[1] - 48) * 10000 + (b[2] - 48) * 1000 + (b[3] - 48) * 100
         + (b[4] - 48) * 10 + (b[5] - 48)
    ELSE -1

\* C4: where the TR is not block-mode, an array block starts with its record
\* count as 5 zero-padded decimal digits, and a count of 100000 or more
\* makes encode fail with ExceedArrayLength; where the TR is block-mode no
\* block has a count prefix.
C4_CountPrefix ==
    Encoded =>
        /\ FirstDefect[4] = "ExceedArrayLength" <=> FailsWith("ExceedArrayLength")
        /\ FailsWith("ExceedArrayLength") => enc.err.block = Declared[FirstDefect[1]].name
        /\ (enc.tag = "Ok" /\ ~tr_layout.block_mode) =>
              \A k \in 1..Len(Declared) :
                  Declared[k].occurs =>
                      /\ Len(RecsOf(k)) < 100000
                      /\ BlockStart(k) + 5 <= Len(enc.val)
                      /\ FiveDigits(Slice(enc.val, BlockStart(k), BlockStart(k) + 5))
                            = Len(RecsOf(k))
        /\ (enc.tag = "Ok" /\ tr_layout.block_mode) =>
              Len(enc.val) = SumSeq([k \in 1..Len(Declared) |->
                                        Len(RecsOf(k)) * Declared[k].len])

\* an array of exactly 100000 records
C4_Witness ==
    /\ Encoded
    /\ FailsWith("ExceedArrayLength")
    /\ Len(RecsOf(FirstDefect[1])) = 100000

\* n is an exact multiple of m
Multiple(n, m) == \E q \in 0..n : q * m = n

\* the only entry of a raw block table that holds one declared array block
OnlyArrayEntry ==
    /\ op = "decode"
    /\ raw_data.kind = "Block"
    /\ Cardinality(DOMAIN raw_data.tbl) = 1
    /\ \E k \in 1..Len(tr_layout.out_blocks) :
          tr_layout.out_blocks[k].occurs
          /\ tr_layout.out_blocks[k].name \in DOMAIN raw_data.tbl

OnlyLayout ==
    tr_layout.out_blocks[CHOOSE k \in 1..Len(tr_layout.out_blocks) :
                            tr_layout.out_blocks[k].name \in DOMAIN raw_data.tbl]

\* C5: block-mode decode of an array block succeeds only on a slice whose
\* length is an exact multiple of the block's len, then gives length / len
\* records, and fails with MismatchDataLength on every other length.
C5_BlockArrayMultiple ==
    OnlyArrayEntry =>
        LET n == Len(raw_data.tbl[OnlyLayout.name])
        IN  /\ dec.tag = "Ok" =>
                  /\ Multiple(n, OnlyLayout.len)
                  /\ Len(dec.data.blocks[OnlyLayout.name].recs) * OnlyLayout.len = n
            /\ ~Multiple(n, OnlyLayout.len) =>
                  dec.tag = "Err" /\ dec.err.kind = "MismatchDataLength"

\* C6 as stated: decode_non_block rejects every buffer whose length from the
\* start of an array block's count prefix is not exactly 5 + count * len.
C6_ExactLength ==
    Decoded =>
        \A c \in 1..Len(dec.t.counts) :
            LET e == dec.t.counts[c]
            IN  e.buf_len - e.start # 5 + e.count * e.rec_len => dec.tag = "Err"

\* C6 amended: decode_non_block rejects with MismatchDataLength every buffer
\* whose length from the start of an array block's count prefix is less than
\* 5 + count * len for the parsed count; a longer buffer is not rejected for
\* its length.
C6_TooShortRejected ==
    Decoded =>
        /\ \A c \in 1..Len(dec.t.counts) :
              LET e == dec.t.counts[c]
              IN  e.buf_len - e.start < 5 + e.count * e.rec_len =>
                      dec.tag = "Err" /\ dec.err.kind = "MismatchDataLength"
        /\ (dec.tag = "Err" /\ dec.err.kind = "MismatchDataLength") =>
              \E n \in 1..Len(dec.t.needs) :
                  dec.t.needs[n].at + dec.t.needs[n].need > dec.t.needs[n].buf_len
                  \/ raw_data.kind = "Block"

C6_Witness ==
    /\ Decoded
    /\ dec.tag = "Err" /\ dec.err.kind = "MismatchDataLength"
    /\ \E c \in 1..Len(dec.t.counts) :
          LET e == dec.t.counts[c]
          IN  e.count = 2 /\ e.rec_len > 0 /\ e.buf_len - e.start = 5 + e.rec_len

\* C7: every slice decode takes lies within the buffer or raw block it is
\* taken from, and a step that finds fewer bytes left than it needs ends the
\* decode with MismatchDataLength.
C7_ReadsInRange ==
    Decoded =>
        /\ \A r \in 1..Len(dec.t.reads) :
              LET e == dec.t.reads[r] IN 0 <= e.lo /\ e.lo <= e.hi /\ e.hi <= e.buf_len
        /\ ~(dec.tag = "Panic" /\ dec.why = "slice index out of range")
        /\ (\E n \in 1..Len(dec.t.needs) :
              dec.t.needs[n].at + dec.t.needs[n].need > dec.t.needs[n].buf_len)
              => dec.tag = "Err" /\ dec.err.kind = "MismatchDataLength"

\* a single block cut short after an array block was read
C7_Witness ==
    /\ Decoded
    /\ raw_data.kind = "NonBlock"
    /\ Len(dec.t.reads) >= 2
    /\ dec.tag = "Err" /\ dec.err.kind = "MismatchDataLength"
    /\ LET e == dec.t.needs[Len(dec.t.needs)]
       IN  e.need = 3 /\ e.buf_len - e.at \in {1, 2}

\* the text was parsed into a layout
ParsedOk == layout # NoValue /\ layout.tag = "Ok"

\* the blocks of one type, as the text declares them and as they were parsed
DeclaredBlocks(block_type) == SelectSeq(res.blocks, LAMBDA b : b.block_type = block_type)
ParsedBlocks(block_type) ==
    IF block_type = "Input" THEN layout.val.in_blocks ELSE layout.val.out_blocks

RECURSIVE LenSum(_, _, _)
\* the lengths of the fields from the i-th on, each with adj added
LenSum(fields, adj, i) ==
    IF i > Len(fields) THEN 0 ELSE fields[i].len + adj + LenSum(fields, adj, i + 1)

\* C8: every block of a layout parsed from a text holds the fields the text
\* declares for it, in the declared order and with the declared lengths, and
\* its len is the sum over those fields of the field's len plus 1 where the
\* TR line (not the block line) carries attr, plus 0 where it does not.
C8_RecordByteLength ==
    ParsedOk =>
        LET adj == IF res.params.attr_byte THEN 1 ELSE 0
        IN  /\ layout.val.attr_byte = res.params.attr_byte
            /\ \A block_type \in {"Input", "Output"} :
                LET decls == DeclaredBlocks(block_type)
                    blocks == ParsedBlocks(block_type)
                IN  /\ Len(blocks) = Len(decls)
                    /\ \A k \in 1..Len(blocks) :
                        /\ Len(blocks[k].fields) = Len(decls[k].fields)
                        /\ \A i \in 1..Len(blocks[k].fields) :
                            blocks[k].fields[i].len = decls[k].fields[i].len
                        /\ blocks[k].len = LenSum(blocks[k].fields, adj, 1)

\* a TR with attr was parsed, with a block of fields of lengths 4 and 12,
\* its len 18
C8_Witness ==
    /\ ParsedOk
    /\ layout.val.attr_byte
    /\ \E k \in 1..Len(layout.val.out_blocks) :
        LET block == layout.val.out_blocks[k]
        IN  /\ Len(block.fields) = 2
            /\ block.fields[1].len = 4 /\ block.fields[2].len = 12
            /\ block.len = 18

\* C9: encode takes a field's value from the record under the field's
\* current name, under its legacy name only where the current name is not a
\* key, and fails with MissingField where neither is.
C9_FieldLookup ==
    Encoded =>
        /\ FirstDefect[4] = "MissingField" <=> FailsWith("MissingField")
        /\ FailsWith("MissingField") =>
              /\ enc.err.block = Declared[FirstDefect[1]].name
              /\ enc.err.field = Declared[FirstDefect[1]].fields[FirstDefect[3]].name
        /\ enc.tag = "Ok" =>
              \A p \in Positions :
                  LET fl == Declared[p[1]].fields[p[3]]
                      v == EucKrEncode(Current(RecsOf(p[1])[p[2]], fl))
                      at == FieldStart(p[1], p[2], p[3])
                  IN  /\ at + Len(v) <= Len(enc.val)
                      /\ Slice(enc.val, at, at + Len(v)) = v

\* a record that holds different values under both names of a field
C9_Witness ==
    /\ Encoded
    /\ enc.tag = "Ok"
    /\ \E p \in Positions :
          LET fl == Declared[p[1]].fields[p[3]]
              rec == RecsOf(p[1])[p[2]]
          IN  /\ fl.name # fl.name_old
              /\ {fl.name, fl.name_old} \subseteq DOMAIN rec
              /\ rec[fl.name] # rec[fl.name_old]

\* C10: encode walks the declared blocks of the direction data.data_type
\* selects, in order; the first one absent from data makes it fail with
\* MissingBlock and the first one of the other shape with MismatchBlockType,
\* naming that block.
C10_BlockWalk ==
    Encoded =>
        /\ FirstDefect[4] = "MissingBlock" <=> FailsWith("MissingBlock")
        /\ FirstDefect[4] = "MismatchBlockType" <=> FailsWith("MismatchBlockType")
        /\ (FailsWith("MissingBlock") \/ FailsWith("MismatchBlockType")) =>
              enc.err.block = Declared[FirstDefect[1]].name

\* Output data whose first declared block is accepted and whose second is
\* absent
C10_Witness ==
    /\ Encoded
    /\ data.data_type = "Output"
    /\ FailsWith("MissingBlock")
    /\ FirstDefect[1] = 2
    /\ tr_layout.in_blocks[1].name \notin DOMAIN data.blocks

\* C11: whenever a check of encode fails, at the first block or after
\* blocks and records before it were encoded, encode returns the error and
\* nothing else, and no buffer is handed on.  (encode takes the Data and the
\* layout by shared reference: it has no way to change them.)
C11_AllOrNothing ==
    (Encoded /\ FirstDefect[4] # "None") =>
        /\ enc.tag = "Err"
        /\ DOMAIN enc = {"tag", "err"}
        /\ handed = None

\* the second record of the second declared block fails: the first block and
\* the first record of the second are encoded by then
C11_Witness ==
    /\ op = "encode"
    /\ FirstDefect[1] = 2
    /\ FirstDefect[2] = 2
    /\ enc.tag = "Err"
    /\ handed = None

(***************************************************************************)
(* Claims about load_dir.  What the files of the directory hold is read    *)
(* off the directory itself, whatever the order its tasks end in.          *)
(***************************************************************************)
\* what the task of each file of the directory sends
Results == {parse_layout(f) : f \in dir}

\* every file of the directory loads: it is read, decoded and parsed
AllParse(rs) == \A r \in rs : r.tag = "Ok"

\* the layouts the files of the directory parse to
ParsedLayouts(rs) == {r.val : r \in {x \in rs : x.tag = "Ok"}}

\* the codes two files of the directory clash on: they parse to layouts of
\* one code that differ
ClashCodes(rs) ==
    {l.code : l \in {x \in ParsedLayouts(rs) : \E y \in ParsedLayouts(rs) : x.code = y.code /\ x # y}}

Conflict(code) == Err([kind |-> "Conflict", code |-> code])

\* the table of the layouts the files of the directory parse to
TableOf(rs) ==
    [code \in {l.code : l \in ParsedLayouts(rs)} |->
        CHOOSE l \in ParsedLayouts(rs) : l.code = code]

\* C12 as stated, of the results rs
ConflictAlways(rs) == \A code \in ClashCodes(rs) : loaded = Conflict(code)

\* C12 amended, of the results rs
ConflictRejected(rs) ==
    /\ ClashCodes(rs) # {} =>
        /\ loaded.tag = "Err"
        /\ \/ loaded.err.kind = "Conflict" /\ loaded.err.code \in ClashCodes(rs)
           \/ loaded \in rs
    /\ (AllParse(rs) /\ Cardinality(ClashCodes(rs)) = 1) =>
        \A code \in ClashCodes(rs) : loaded = Conflict(code)
    /\ (AllParse(rs) /\ ClashCodes(rs) = {}) => loaded.tag = "Ok"

\* two files with equal layouts and a clash on one code, of the results rs
EqualAndClash(rs) ==
    /\ AllParse(rs)
    /\ Cardinality(rs) < Cardinality(dir)
    /\ Cardinality(ClashCodes(rs)) = 1

\* C13, of the results rs
OrderIndependent(rs) ==
    /\ loaded.tag = "Ok" <=> (AllParse(rs) /\ ClashCodes(rs) = {})
    /\ loaded.tag = "Ok" => loaded.val = TableOf(rs)

\* C12 as stated: whenever two files of the directory parse to layouts of
\* one code that differ, load_dir fails with Conflict of that code.
C12_ConflictAlways == loaded # NoValue => ConflictAlways(Results)

\* C12 amended: whenever two files of the directory parse to layouts of one
\* code that differ, load_dir fails and returns no table: with Conflict of
\* that code where every file of the directory loads and no other code is
\* clashed on, else with Conflict of a code that is clashed on or with the
\* error of a file that does not load.  Files of one code with equal layouts
\* are accepted: a directory whose files all load and do not clash loads.
C12_ConflictRejected == loaded # NoValue => ConflictRejected(Results)

\* two files of t1101 with equal layouts and a third that differs: Conflict
C12_Witness ==
    /\ loaded # NoValue
    /\ Cardinality(dir) = 3
    /\ EqualAndClash(Results)
    /\ loaded.tag = "Err"
    /\ loaded.err.kind = "Conflict"

\* C13: whatever the order the tasks end in, load_dir succeeds exactly when
\* every file of the directory loads and no two clash, and the table it then
\* returns is the table of the layouts the files parse to: success or
\* failure, and the table, are fixed by the directory.
C13_OrderIndependent == loaded # NoValue => OrderIndependent(Results)

\* three files, two of them of one code, loaded into a table of two layouts
C13_Witness ==
    /\ loaded # NoValue
    /\ loaded.tag = "Ok"
    /\ Cardinality(dir) = 3
    /\ Cardinality(DOMAIN loaded.val) = 2

(***************************************************************************)
(* Claims about the texts the parser accepts.  The run is on the text of   *)
(* the case res, which differs from a well-formed text in the one place    *)
(* its family names.                                                       *)
(***************************************************************************)
\* the run on the text of a case of the family has come to its end
Parsed(family) == layout # NoValue /\ res.family = family

\* the grammar of a block name: letters and digits, then InBlock or
\* OutBlock, then digits
NameInGrammar(name) ==
    \E lit \in { <<"I", "n", "B", "l", "o", "c", "k">>,
                 <<"O", "u", "t", "B", "l", "o", "c", "k">> } :
        \E i \in 0..(Len(name) - Len(lit)) :
            /\ \A j \in 1..Len(lit) : name[i + j] = lit[j]
            /\ \A j \in 1..i : name[j] \in AlphaChars \cup DigitChars
            /\ \A j \in (i + Len(lit) + 1)..Len(name) : name[j] \in DigitChars

\* C14: the parser accepts the name of a block exactly when the name is an
\* optional alphanumeric prefix, then InBlock or OutBlock, then optional
\* digits, and returns an error for every other name.
C14_BlockNameGrammar ==
    Parsed("name") =>
        /\ layout.tag \in {"Ok", "Err"}
        /\ layout.tag = "Ok" <=> NameInGrammar(res.name)

\* C15: the parser accepts the TR type written .Func or tr as a query TR and
\* written .Feed or real as a real-time TR, and for a real-time TR it
\* rejects every code that is not 3 characters long.
C15_TrTypeSpellings ==
    Parsed("type") =>
        LET query == res.tr_type \in {<<".", "F", "u", "n", "c">>, <<"t", "r">>}
            real == res.tr_type \in {<<".", "F", "e", "e", "d">>, <<"r", "e", "a", "l">>}
        IN  /\ layout.tag \in {"Ok", "Err"}
            /\ layout.tag = "Ok" <=> query \/ (real /\ Len(res.code) = 3)
            /\ layout.tag = "Ok" =>
                  layout.val.tr_type = (IF query THEN "Func" ELSE "Feed")

\* the parameter list ends with a comma
TrailingComma(params) == params # <<>> /\ params[Len(params)] = ","

\* the parameter list without the comma at its end
WithoutComma(params) == SubSeq(params, 1, Len(params) - 1)

\* what the parser returns on the text of the case
ParseOf(c) == parse(CaseText(c), TrLayout_from_str)

\* C16, as the claim states it: a parameter list with a comma between its
\* last parameter and the semicolon parses to the layout of the list
\* without that comma.
C16_TrailingComma ==
    (Parsed("param") /\ TrailingComma(res.params)
                     /\ ~TrailingComma(WithoutComma(res.params))) =>
        /\ layout.tag = "Ok"
        /\ layout = ParseOf([res EXCEPT !.params = WithoutComma(res.params)])

\* C16: a parameter list with a comma between its last parameter and the
\* semicolon does not parse: the parse ends with a Data error, while the
\* list without that comma parses.
C16_TrailingCommaRejected ==
    (Parsed("param") /\ TrailingComma(res.params)
                     /\ ~TrailingComma(WithoutComma(res.params))) =>
        /\ layout.tag = "Err"
        /\ layout.err.kind = "Data"
        /\ ParseOf([res EXCEPT !.params = WithoutComma(res.params)]).tag = "Ok"

\* attr,; has been rejected
C16_Witness ==
    /\ Parsed("param")
    /\ res.params = <<",", "a", "t", "t", "r", ",">>
    /\ layout.tag = "Err"
    /\ layout.err.kind = "Data"

\* C17: the fields of a block parse to the same FieldLayout values whether
\* or not a semicolon follows each of them, the last one before end
\* included.
C17_OptionalSemicolon ==
    Parsed("semi") =>
        /\ layout.tag = "Ok"
        /\ Len(layout.val.in_blocks) = 1
        /\ layout.val.in_blocks[1].fields =
              << FieldLayout(<<"a", " ", "b">>, <<"o", "l", "d">>, <<"n", "e", "w">>,
                             "Char", 3, None),
                 FieldLayout(<<"a", " ", "b">>, <<"o", "l", "d">>, <<"n", "e", "w">>,
                             "Char", 12, None) >>
        /\ layout = ParseOf([res EXCEPT !.semis = <<TRUE, TRUE>>])

\* two fields were parsed from lines without a semicolon
C17_Witness ==
    /\ Parsed("semi")
    /\ res.semis = <<FALSE, FALSE>>
    /\ layout.tag = "Ok"
    /\ Len(layout.val.in_blocks[1].fields) = 2

RECURSIVE RefWidth(_, _, _)
\* the columns the characters from offset lo up to offset hi take, a tab
\* going on to the next multiple of 4
RefWidth(string, lo, hi) ==
    IF hi <= lo THEN 0
    ELSE LET w == RefWidth(string, lo, hi - 1)
         IN  IF string[hi] = "\t" THEN (w \div 4 + 1) * 4 ELSE w + 1

\* the line and the column of the character at the offset, in a text whose
\* lines end with "\n"
RefPosition(string, offset) ==
    LET breaks == {k \in 1..offset : string[k] = "\n"}
        lo == IF breaks = {} THEN 0 ELSE CHOOSE k \in breaks : \A b \in breaks : b <= k
    IN  [line |-> 1 + Cardinality(breaks), column |-> 1 + RefWidth(string, lo, offset)]

\* the offset of the first character from the offset on that is not
\* whitespace
RECURSIVE TokenFrom(_, _)
TokenFrom(string, offset) ==
    IF offset < Len(string) /\ string[offset + 1] \in {" ", "\t", "\n"}
    THEN TokenFrom(string, offset + 1) ELSE offset

\* the offsets of the TR type, the code, the parameters and the block name
\* in the text of a case
TypeOffset ==
    CHOOSE k \in 0..(Len(PlainText) - 1) :
        /\ PlainText[k + 1] = "."
        /\ \A j \in 0..(k - 1) : PlainText[j + 1] # "."
CodeOffset(c) == TypeOffset + Len(c.tr_type) + 3
ParamsOffset(c) == CodeOffset(c) + Len(c.code)
NameOffset(c) == ParamsOffset(c) + Len(c.params) + 19

\* the parameter that follows the k-th character of the list, a comma
ParamAfter(params, k) ==
    LET ends == {j \in (k + 1)..Len(params) : params[j] = ","}
        hi == IF ends = {} THEN Len(params) + 1 ELSE CHOOSE j \in ends : \A e \in ends : j <= e
    IN  SubSeq(params, k + 1, hi - 1)

\* the offset in the list of the first parameter the parser does not know
BadParam(params) ==
    LET bad == {k \in 1..Len(params) :
                    /\ params[k] = ","
                    /\ ParamAfter(params, k) \notin
                          { <<"a", "t", "t", "r">>, <<"b", "l", "o", "c", "k">>,
                            <<"h", "e", "a", "d", "t", "y", "p", "e", "=", "A">> }}
    IN  CHOOSE k \in bad : \A b \in bad : k <= b

\* the offset of the token of the text the parser cannot accept: the token
\* that stands where a comma was, the first token on the next line where a
\* line break stands there, the TR type, the code, the parameter, the block
\* name, or the semicolon that stands where the length of the field was
Offending(c) ==
    CASE c.family = "delim" -> TokenFrom(CaseText(c), c.at)
      [] c.family = "empty" -> TokenFrom(CaseText(c), c.at)
      [] c.family = "type" ->
            IF c.tr_type \in {<<".", "F", "u", "n", "c">>, <<".", "F", "e", "e", "d">>}
            THEN CodeOffset(c) ELSE TypeOffset
      [] c.family = "param" -> ParamsOffset(c) + BadParam(c.params)
      [] c.family = "name" -> NameOffset(c)

\* C18: where a delimiter must stand before another value, a comma lets
\* the parse go on, a semicolon ends it with a Data error and any other
\* token with a Syntax error, and every error about a token carries the
\* line and the column of that token.
C18_DelimiterErrors ==
    /\ Parsed("delim") =>
          /\ res.by = "," => layout.tag = "Ok"
          /\ res.by = ";" => layout.tag = "Err" /\ layout.err.kind = "Data"
          /\ res.by = "\n" => layout.tag = "Err" /\ layout.err.kind = "Syntax"
    /\ (layout # NoValue /\ layout.tag = "Err" /\ layout.err.kind \in {"Syntax", "Data"}) =>
          [line |-> layout.err.line, column |-> layout.err.column]
              = RefPosition(text, Offending(res))

(***************************************************************************)
(* Claims about the tokenizer.                                             *)
(***************************************************************************)
\* next_sym has returned None: the text has been read to its end
ReadToEnd == last # NoValue /\ last.call = "next_sym" /\ ~last.ret.some

\* the tokens BEGIN_FUNCTION_MAP, tr, `,`, desc, `,`, t1101, `,`, attr, `;`,
\* BEGIN_DATA_MAP, END_DATA_MAP
ElevenTokens ==
    << <<"B", "E", "G", "I", "N", "_", "F", "U", "N", "C", "T", "I", "O", "N", "_",
         "M", "A", "P">>,
       <<"t", "r">>,
       <<",">>,
       <<"d", "e", "s", "c">>,
       <<",">>,
       <<"t", "1", "1", "0", "1">>,
       <<",">>,
       <<"a", "t", "t", "r">>,
       <<";">>,
       <<"B", "E", "G", "I", "N", "_", "D", "A", "T", "A", "_", "M", "A", "P">>,
       <<"E", "N", "D", "_", "D", "A", "T", "A", "_", "M", "A", "P">> >>

Produced(string, state) == StrRead_next_sym(string, [state EXCEPT !.prev_symbol = <<>>])

\* the token next_sym produces in the state is a delimiter and the symbol
\* returned before it was one too
Suppressed(string, state) ==
    /\ state # NoValue
    /\ IsDelimiter(state.prev_symbol)
    /\ Produced(string, state).some
    /\ IsDelimiter(Produced(string, state).sym)

\* C21, as the claim states it: next_sym returns the empty string for a
\* delimiter that follows a delimiter and moves the cursor past it, so that
\* the call after it reads on from behind the suppressed delimiter.
C21_SuppressedAdvances ==
    [][(NextSym /\ Suppressed(text, reader)) =>
            /\ last'.ret = Some(<<>>)
            /\ reader'.iter > reader.iter
            /\ reader'.iter = Produced(text, reader).state.iter]_vars

\* C21: next_sym returns the empty string for a delimiter that follows a
\* delimiter and leaves the cursor and latest_offset where they were, so
\* that the call after it returns the suppressed delimiter itself and moves
\* past it.
C21_SuppressedStays ==
    [][(NextSym /\ Suppressed(text, reader)) =>
            /\ last'.ret = Some(<<>>)
            /\ reader'.iter = reader.iter
            /\ reader'.latest_offset = reader.latest_offset
            /\ StrRead_next_sym(text, reader').sym = Produced(text, reader).sym
            /\ StrRead_next_sym(text, reader').state.iter
                  = Produced(text, reader).state.iter]_vars

\* of the text a,,b.. the second comma has been suppressed and then returned
C21_Witness ==
    /\ Len(text) >= 4
    /\ SubSeq(text, 1, 4) = <<"a", ",", ",", "b">>
    /\ symbols = << <<"a">>, <<",">>, <<>>, <<",">> >>
    /\ last.call = "next_sym"

RECURSIVE TokensFrom(_, _)
\* what the calls of next_sym return from the state on, up to the None
TokensFrom(string, state) ==
    LET n == StrRead_next_sym(string, state)
    IN  IF ~n.some THEN <<>> ELSE <<n.sym>> \o TokensFrom(string, n.state)

\* C24: peek_sym returns what the next call of next_sym returns, and the
\* calls of peek_sym at any place leave what the calls of next_sym return
\* as it is without them: the tokens returned so far and the tokens to
\* come are the tokens of the text.
C24_PeekIsTransparent ==
    reader # NoValue =>
        /\ symbols \o TokensFrom(text, reader) = TokensFrom(text, NewState)
        /\ last # NoValue /\ last.call = "peek_sym" =>
              last.ret = IF TokensFrom(text, reader) = <<>> THEN None
                         ELSE Some(Head(TokensFrom(text, reader)))

\* peek_sym has returned a token between two calls of next_sym
C24_Witness ==
    /\ last # NoValue
    /\ last.call = "peek_sym"
    /\ last.ret.some
    /\ symbols # <<>>
    /\ TokensFrom(text, reader) # <<>>

RECURSIVE StateAfter(_, _)
\* the state of a StrRead on the string after n calls of next_sym and no
\* other call
StateAfter(string, n) ==
    IF n = 0 THEN NewState ELSE StrRead_next_sym(string, StateAfter(string, n - 1)).state

\* the offset of the first character of the token next_sym returned last
LastOffset == StateAfter(text, Len(symbols)).latest_offset

\* C25: position() is the position of the first character of the token
\* next_sym returned last, whatever calls of peek_sym have been made since.
C25_PositionOfLastToken ==
    (reader # NoValue /\ symbols # <<>> /\ symbols[Len(symbols)] # <<>>) =>
        /\ SubSeq(text, LastOffset + 1, LastOffset + Len(symbols[Len(symbols)]))
              = symbols[Len(symbols)]
        /\ StrRead_position(text, reader)
              = StrRead_position(text, [reader EXCEPT !.latest_offset = LastOffset])

RECURSIVE WidthBy(_, _, _, _)
\* the columns the characters from offset lo up to offset hi take: a tab
\* takes 4, or as many as lead to the next multiple of 4 (stops), another
\* character takes 1
WidthBy(string, lo, hi, stops) ==
    IF hi <= lo THEN 0
    ELSE LET w == WidthBy(string, lo, hi - 1, stops)
         IN  IF string[hi] # "\t" THEN w + 1
             ELSE IF stops THEN (w \div 4 + 1) * 4 ELSE w + 4

\* the offsets up to the offset at which a line starts after a line break,
\* "\r\n" being one line break
LineStartsTo(string, offset) ==
    {k \in 1..offset :
        \/ string[k] = "\n"
        \/ string[k] = "\r" /\ ~(k < Len(string) /\ string[k + 1] = "\n")}

\* the position of the character at the offset: its line, counted from 1,
\* and its column, counted from 1
PositionBy(string, offset, stops) ==
    LET starts == LineStartsTo(string, offset)
        lo == IF starts = {} THEN 0 ELSE CHOOSE k \in starts : \A j \in starts : j <= k
    IN  [line |-> 1 + Cardinality(starts), column |-> 1 + WidthBy(string, lo, offset, stops)]

\* C28, as the claim states it: the column of a Position starts at 1 and
\* goes 4 on at every tab and 1 on at every other character, and a line
\* break, CRLF being one, leads to column 1 of the next line.
C28_TabAddsFour ==
    reader # NoValue =>
        StrRead_position(text, reader)
            = PositionBy(text, reader.latest_offset, FALSE)

\* C28: the column of a Position starts at 1, goes at a tab on to the next
\* column that is 1 more than a multiple of 4 and 1 on at every other
\* character, and a line break, CRLF being one, leads to column 1 of the
\* next line.
C28_TabStops ==
    reader # NoValue =>
        StrRead_position(text, reader)
            = PositionBy(text, reader.latest_offset, TRUE)

\* the token after a tab in the middle of the first line has been read, and
\* the token after a CRLF
C28_Witness ==
    /\ reader # NoValue
    /\ \E k \in 3..(reader.latest_offset - 2) :
          /\ text[k] = "\t"
          /\ \A j \in 1..k : text[j] \notin {"\r", "\n"}
    /\ \E k \in 1..(reader.latest_offset - 1) : text[k] = "\r" /\ text[k + 1] = "\n"
    /\ StrRead_position(text, reader).line = 2

\* C29: no token next_sym has returned begins or ends with a blank, a tab
\* or a line break.
C29_TokensTrimmed ==
    \A i \in 1..Len(symbols) :
        symbols[i] # <<>> =>
            /\ symbols[i][1] \notin {" ", "\t", "\r", "\n"}
            /\ symbols[i][Len(symbols[i])] \notin {" ", "\t", "\r", "\n"}

(***************************************************************************)
(* Claims about the calls of the API.                                      *)
(***************************************************************************)
\* the caller is in connect or login: it has taken the handle and has not
\* returned yet
Connecting(t) == call[t].name \in LockedCalls /\ call[t].pc \notin {"idle", "lock"}

\* the call of the caller is held back: it has not been made, or it waits
\* for the handle
HeldBack(u) == call[u].pc \in {"idle", "lock"}

\* C19: while a caller is in connect or login every call of another caller
\* is held back, and no call request of another caller is with the executor
\* thread or in the DLL.
C19_ConnectLoginExclusive ==
    \A t \in Callers :
        Connecting(t) =>
            /\ \A u \in Callers \ {t} : HeldBack(u)
            /\ \A i \in 1..Len(queue) : queue[i].caller = t
            /\ running # None => running.val.caller = t

(***************************************************************************)
(* Claims about Session::request.                                          *)
(***************************************************************************)
\* C22: whenever the executor thread has handled an XM_RECEIVE_DATA for a
\* request id, the place of state_tbl under the id held the QueryState of
\* the request the message answers.
C22_StateInstalled ==
    seen # None =>
        /\ seen.val.state.some
        /\ seen.val.state.val.request = seen.val.msg.request

(***************************************************************************)
(* Claims about RetFuture.                                                 *)
(***************************************************************************)
\* C23: a RetFuture whose result is in its channel is resolved in the end:
\* its task gets Poll::Ready.
C23_EventuallyResolves ==
    \A f \in Futures : futures[f].rx_ret.some ~> (futures[f].pc = "ready")

(***************************************************************************)
(* Claims about the tasks of load_dir.                                     *)
(***************************************************************************)
\* C26: no task of load_dir fails to send its result, and once load_dir has
\* returned every task has finished.
C26_TasksJoined ==
    /\ panic_count = 0
    /\ loaded # NoValue => todo = {}

(***************************************************************************)
(* Claims about decode with a parsed layout.                               *)
(***************************************************************************)
\* C27: decode with a layout the parser has produced and a response of the
\* shape of the layout returns Ok or a DecodeError; it does not panic.
C27_DecodeReturns == op = "decode" => dec.tag \in {"Ok", "Err"}

(***************************************************************************)
(* Claims about the end of a parse.                                        *)
(***************************************************************************)
\* the calls of peek_sym a run at pc may make before its next call of
\* next_sym: the one after a field may be followed by the one of the loop
\* over the fields
PeeksAhead(pc) == IF pc = "field_semi" THEN 2 ELSE IF pc \in PeekPcs THEN 1 ELSE 0

\* what a run of the parser has left to do: the characters after the
\* cursor count 8 each, a delimiter returned last, after which next_sym may
\* return the empty string without moving the cursor, counts 4, and each
\* peek_sym ahead counts 1
Remaining(p) ==
    8 * (Len(text) - p.reader.iter)
    + (IF IsDelimiter(p.reader.prev_symbol) THEN 4 ELSE 0)
    + PeeksAhead(p.pc)

\* C30: every step of the parse of a text, a call of the reader and the
\* code up to the next call, either returns from the parse with a TrLayout
\* or with an Error or leaves less to do than there was, so that the parse
\* ends; this also when the tokenizer returns the empty string for a
\* delimiter it suppresses and when a comment of the text does not end.
C30_ParseEnds ==
    [][Parse =>
          \/ parser'.pc = "done" /\ layout'.tag \in {"Ok", "Err"}
          \/ parser'.pc # "done" /\ Remaining(parser') < Remaining(parser)]_vars

\* the parse of the text with an empty value has ended with a TrLayout: the
\* tokenizer has returned the empty string for the comma after the value,
\* and then the comma
C30_Witness ==
    /\ res.family = "blank"
    /\ parser.pc = "done"
    /\ layout.tag = "Ok"
    /\ layout.val.desc = <<>>

====
